---- MODULE Spec2Model ----
(***************************************************************************)
(* A model of the backend of the social-media content tool                 *)
(* (src/backend/app): the provider registry, the model-configuration       *)
(* endpoints, and the three generation orchestrators (text, image, OCR).   *)
(*                                                                         *)
(* Conventions                                                             *)
(*   - Optional[X] is a set with at most one element ({} is None).         *)
(*   - A Python list is a sequence; a str is a string, built with \o as    *)
(*     the f-strings build it.                                             *)
(*   - A function that can raise returns a record whose field raised tells *)
(*     whether it did and whose field msg is str(e).                       *)
(***************************************************************************)
EXTENDS Integers, Sequences, FiniteSets, TLC

VARIABLES
    _text_providers,      \* ProviderFactory._text_providers: name -> class
    _image_providers,     \* ProviderFactory._image_providers: name -> class
    _vision_providers,    \* the vision registry the vision providers register in
    ENCRYPTION_KEY,       \* settings.ENCRYPTION_KEY
    model_configs,        \* table model_configs (committed rows)
    next_model_config_id, \* the table's id sequence
    credentials,          \* table credentials
    prompts,              \* table prompts
    customer_info,        \* table customer_info
    templates,            \* table templates
    next_template_id,     \* the table's id sequence
    sessions,             \* the in-flight requests of the model-config endpoints
    last,                 \* the last orchestrator request and what it returned
    flux,                 \* a BFLFluxProvider.generate_image call in progress
    injection,            \* a call of _inject_customer_info and what it returned
    tags,                 \* table tags (committed rows)
    autoflush,            \* the autoflush setting of the session factory
    imports,              \* the import_data requests and their sessions
    posts,                \* table posts
    next_post_id,         \* the table's id sequence
    post_call,            \* the last call of a PostService method and its outcome
    reply                 \* the last request of the credential, prompt and template endpoints

registry_vars == <<_text_providers, _image_providers, _vision_providers>>
models_vars == <<model_configs, next_model_config_id, sessions>>
store_vars == <<ENCRYPTION_KEY, credentials, prompts, customer_info>>
template_vars == <<templates, next_template_id>>
call_vars == <<flux, injection>>
import_vars == <<tags, autoflush, imports>>
post_vars == <<posts, next_post_id, post_call>>
vars == <<_text_providers, _image_providers, _vision_providers, ENCRYPTION_KEY,
          model_configs, next_model_config_id, credentials, prompts, customer_info,
          templates, next_template_id, sessions, last, flux, injection,
          tags, autoflush, imports, posts, next_post_id, post_call, reply>>

----------------------------------------------------------------------------
(* Bounds of the model *)

MaxModelConfigs == 2
MaxInFlight == 2
MaxCredentials == 2
MaxTemplates == 1
MaxPairs == 2
MaxPosts == 2

User == {1, 2}

----------------------------------------------------------------------------
(* Helpers for Python lists *)

InList(x, list) == \E i \in 1..Len(list) : list[i] = x

----------------------------------------------------------------------------
(* The concrete providers: PROVIDER_NAME, AVAILABLE_MODELS,                *)
(* VALID_CREDENTIAL_KEYS of each class.                                    *)

OpenAIProvider ==
    [PROVIDER_NAME |-> "openai",
     AVAILABLE_MODELS |-> <<"gpt-4o", "gpt-4o-mini", "gpt-4-turbo", "gpt-4", "gpt-3.5-turbo">>,
     VALID_CREDENTIAL_KEYS |-> <<"chatgpt_api_key", "openai_api_key">>]

AnthropicProvider ==
    [PROVIDER_NAME |-> "anthropic",
     AVAILABLE_MODELS |-> <<"claude-opus-4-5-20251101", "claude-sonnet-4-5-20250929",
                            "claude-sonnet-4-20250514", "claude-3-5-sonnet-20241022",
                            "claude-3-5-sonnet-20240620", "claude-3-opus-20240229",
                            "claude-3-sonnet-20240229", "claude-3-haiku-20240307">>,
     VALID_CREDENTIAL_KEYS |-> <<"anthropic_api_key", "claude_api_key">>]

GeminiProvider ==
    [PROVIDER_NAME |-> "gemini",
     AVAILABLE_MODELS |-> <<"gemini-1.5-pro", "gemini-1.5-pro-latest", "gemini-1.5-flash",
                            "gemini-1.5-flash-latest", "gemini-1.0-pro">>,
     VALID_CREDENTIAL_KEYS |-> <<"gemini_api_key", "google_ai_api_key">>]

OpenAIDalleProvider ==
    [PROVIDER_NAME |-> "openai_dalle",
     AVAILABLE_MODELS |-> <<"dall-e-3", "dall-e-2">>,
     VALID_CREDENTIAL_KEYS |-> <<"openai_api_key", "chatgpt_api_key">>]

BFLFluxProvider ==
    [PROVIDER_NAME |-> "bfl_flux",
     AVAILABLE_MODELS |-> <<"flux-pro-1.1", "flux-pro", "flux-dev">>,
     VALID_CREDENTIAL_KEYS |-> <<"bfl_api_key", "flux_api_key">>]

LMStudioVisionProvider ==
    [PROVIDER_NAME |-> "lm_studio_vision",
     AVAILABLE_MODELS |-> <<"llava-1.5-7b", "llava-1.6-mistral-7b", "llava-1.6-vicuna-7b",
                            "llava-v1.6-mistral-7b-gguf">>,
     VALID_CREDENTIAL_KEYS |-> << >>]

OpenAIVisionProvider ==
    [PROVIDER_NAME |-> "openai_vision",
     AVAILABLE_MODELS |-> <<"gpt-4o", "gpt-4o-mini", "gpt-4-turbo">>,
     VALID_CREDENTIAL_KEYS |-> <<"chatgpt_api_key", "openai_api_key">>]

AnthropicVisionProvider ==
    [PROVIDER_NAME |-> "anthropic_vision",
     AVAILABLE_MODELS |-> <<"claude-opus-4-5-20251101", "claude-sonnet-4-5-20250929",
                            "claude-sonnet-4-20250514", "claude-3-5-sonnet-20241022",
                            "claude-3-5-sonnet-20240620", "claude-3-opus-20240229",
                            "claude-3-sonnet-20240229", "claude-3-haiku-20240307">>,
     VALID_CREDENTIAL_KEYS |-> <<"anthropic_api_key", "claude_api_key">>]

\* A provider that keeps the base class's declarations: an empty model
\* list and an empty accepted key list (base_provider.py).
BaseProvider ==
    [PROVIDER_NAME |-> "base",
     AVAILABLE_MODELS |-> << >>,
     VALID_CREDENTIAL_KEYS |-> << >>]

\* The registries hold classes; a state names a class by its Python name.
Class(cls) ==
    CASE cls = "OpenAIProvider" -> OpenAIProvider
      [] cls = "AnthropicProvider" -> AnthropicProvider
      [] cls = "GeminiProvider" -> GeminiProvider
      [] cls = "OpenAIDalleProvider" -> OpenAIDalleProvider
      [] cls = "BFLFluxProvider" -> BFLFluxProvider
      [] cls = "LMStudioVisionProvider" -> LMStudioVisionProvider
      [] cls = "OpenAIVisionProvider" -> OpenAIVisionProvider
      [] cls = "AnthropicVisionProvider" -> AnthropicVisionProvider
      [] OTHER -> BaseProvider

----------------------------------------------------------------------------
(* ProviderFactory *)

\* dict.get(name): the class registered under the name, or None
DictGet(dict, name) == IF name \in DOMAIN dict THEN {dict[name]} ELSE {}

\* dict[name] = provider_class
DictSet(dict, name, provider_class) ==
    [n \in DOMAIN dict \cup {name} |-> IF n = name THEN provider_class ELSE dict[n]]

\* The registry once app.providers is imported: every provider module
\* registers its class under its name.
StartupTextProviders ==
    DictSet(DictSet(DictSet(<< >>, "openai", "OpenAIProvider"),
                    "anthropic", "AnthropicProvider"), "gemini", "GeminiProvider")

StartupImageProviders ==
    DictSet(DictSet(<< >>, "openai_dalle", "OpenAIDalleProvider"), "bfl_flux", "BFLFluxProvider")

StartupVisionProviders ==
    DictSet(DictSet(DictSet(<< >>, "lm_studio_vision", "LMStudioVisionProvider"),
                    "openai_vision", "OpenAIVisionProvider"),
            "anthropic_vision", "AnthropicVisionProvider")

get_models_for_provider(provider_name, provider_type) ==
    LET provider_class == IF provider_type = "text"
                          THEN DictGet(_text_providers, provider_name)
                          ELSE DictGet(_image_providers, provider_name)
    IN  IF provider_class # {}
        THEN Class(CHOOSE c \in provider_class : TRUE).AVAILABLE_MODELS
        ELSE << >>

get_valid_credentials_for_provider(provider_name, provider_type) ==
    LET provider_class == IF provider_type = "text"
                          THEN DictGet(_text_providers, provider_name)
                          ELSE DictGet(_image_providers, provider_name)
    IN  IF provider_class # {}
        THEN Class(CHOOSE c \in provider_class : TRUE).VALID_CREDENTIAL_KEYS
        ELSE << >>

----------------------------------------------------------------------------
(* The model-configuration endpoints (api/v1/models.py).                   *)
(*                                                                         *)
(* A handler is a coroutine: it can be suspended at every awaited database *)
(* statement, so a request is a session that advances statement by        *)
(* statement.  A SELECT reads the committed rows (PostgreSQL's default     *)
(* READ COMMITTED); the session's changes reach the table at db.commit(),  *)
(* where the unit of work writes one UPDATE per changed attribute of each  *)
(* loaded row, one INSERT per added row and one DELETE per deleted row.    *)

\* Request bodies the model submits.  ModelConfigCreate carries provider,
\* model_id, model_type, is_enabled, is_default; ModelConfigUpdate carries
\* is_enabled and is_default, each left out ("unset"), null, or a boolean.
CreateTargets ==
    { [provider |-> "openai", model_id |-> "gpt-4o", model_type |-> "text"],
      [provider |-> "openai", model_id |-> "gpt-4o-mini", model_type |-> "text"],
      [provider |-> "openai_dalle", model_id |-> "dall-e-3", model_type |-> "image"],
      [provider |-> "openai", model_id |-> "dall-e-3", model_type |-> "text"],
      [provider |-> "unknown_provider", model_id |-> "gpt-4o", model_type |-> "text"] }

ModelConfigCreate ==
    { [provider |-> t.provider, model_id |-> t.model_id, model_type |-> t.model_type,
       is_enabled |-> "true", is_default |-> d] :
         t \in CreateTargets, d \in {"true", "false"} }

ModelConfigUpdate ==
    { [provider |-> "", model_id |-> "", model_type |-> "",
       is_enabled |-> e, is_default |-> d] :
         e \in {"unset", "false"}, d \in {"unset", "null", "true", "false"} }

\* The requests of the concurrent runs: one user, one model type.
ConcurrentCreate == {c \in ModelConfigCreate : get_models_for_provider(c.provider, "text") # << >>
                                               /\ InList(c.model_id, get_models_for_provider(c.provider, "text"))}

ConcurrentUpdate == {u \in ModelConfigUpdate : u.is_enabled = "unset" /\ u.is_default \in {"true", "false"}}

NoInput == [provider |-> "", model_id |-> "", model_type |-> "",
            is_enabled |-> "unset", is_default |-> "unset"]

\* The ModelConfig row (models/model_config.py)
ModelConfig(id, user_id, provider, model_id, model_type, is_enabled, is_default) ==
    [id |-> id, user_id |-> user_id, provider |-> provider, model_id |-> model_id,
     model_type |-> model_type, is_enabled |-> is_enabled, is_default |-> is_default]

IdleSession ==
    [pc |-> "idle", op |-> "none", user |-> 0, model_config_id |-> 0, inp |-> NoInput,
     model_config |-> {}, current_defaults |-> {}, status |-> 0, cleared |-> 0]

\* A request ends with an HTTP status; the session is free again.  It
\* keeps the status and how many defaults the request cleared.
Finish(s, status) ==
    sessions' = [sessions EXCEPT ![s] =
                    [IdleSession EXCEPT !.status = status,
                                        !.cleared = IF status \in {200, 201}
                                                    THEN Cardinality(sessions[s].current_defaults)
                                                    ELSE 0]]

\* select(ModelConfig).filter(id == model_config_id, user_id == current_user.id)
SelectModelConfig(user_id, model_config_id) ==
    {m \in model_configs : m.id = model_config_id /\ m.user_id = user_id}

\* INSERTs of creates that are in flight (they all draw from the id sequence)
CreatesInFlight == Cardinality({s \in DOMAIN sessions : sessions[s].op = "create"
                                                         /\ sessions[s].pc # "idle"})

\* create_model_config up to its first decision: the duplicate check and
\* the validation of provider and model id.
create_model_config(s, current_user, model_config_in) ==
    /\ sessions[s].pc = "idle"
    /\ next_model_config_id + CreatesInFlight <= MaxModelConfigs
    /\ LET existing == {m \in model_configs :
                           /\ m.user_id = current_user
                           /\ m.provider = model_config_in.provider
                           /\ m.model_id = model_config_in.model_id
                           /\ m.model_type = model_config_in.model_type}
           available_models == get_models_for_provider(model_config_in.provider,
                                                       model_config_in.model_type)
           started == [IdleSession EXCEPT !.op = "create", !.user = current_user,
                                          !.inp = model_config_in]
       IN  IF existing # {}
           THEN Finish(s, 400)
           ELSE IF available_models = << >>
           THEN Finish(s, 400)
           ELSE IF ~InList(model_config_in.model_id, available_models)
           THEN Finish(s, 400)
           ELSE sessions' = [sessions EXCEPT ![s] =
                    [started EXCEPT !.pc = IF model_config_in.is_default = "true"
                                           THEN "select_defaults" ELSE "commit"]]
    /\ UNCHANGED <<model_configs, next_model_config_id, registry_vars, store_vars, import_vars, post_vars, reply, call_vars, template_vars, last>>

\* update_model_config up to its first decision: the row is looked up by
\* id and owner.
update_model_config(s, current_user, model_config_id, model_config_in) ==
    /\ sessions[s].pc = "idle"
    /\ LET model_config == SelectModelConfig(current_user, model_config_id)
           started == [IdleSession EXCEPT !.op = "update", !.user = current_user,
                                          !.model_config_id = model_config_id,
                                          !.inp = model_config_in,
                                          !.model_config = model_config]
       IN  IF model_config = {}
           THEN Finish(s, 404)
           ELSE sessions' = [sessions EXCEPT ![s] =
                    [started EXCEPT !.pc = IF model_config_in.is_default = "true"
                                           THEN "select_defaults" ELSE "commit"]]
    /\ UNCHANGED <<model_configs, next_model_config_id, registry_vars, store_vars, import_vars, post_vars, reply, call_vars, template_vars, last>>

\* delete_model_config up to its first decision.
delete_model_config(s, current_user, model_config_id) ==
    /\ sessions[s].pc = "idle"
    /\ LET model_config == SelectModelConfig(current_user, model_config_id)
           started == [IdleSession EXCEPT !.op = "delete", !.user = current_user,
                                          !.model_config_id = model_config_id,
                                          !.model_config = model_config]
       IN  IF model_config = {}
           THEN Finish(s, 404)
           ELSE sessions' = [sessions EXCEPT ![s] = [started EXCEPT !.pc = "commit"]]
    /\ UNCHANGED <<model_configs, next_model_config_id, registry_vars, store_vars, import_vars, post_vars, reply, call_vars, template_vars, last>>

\* C25 mutant: the SELECT of the current defaults leaves out the user filter.
CurrentDefaultsOfAnyUser(ses) ==
    IF ses.op = "create"
    THEN {m \in model_configs : /\ m.model_type = ses.inp.model_type
                                /\ m.is_default}
    ELSE {m \in model_configs : /\ m.model_type = (CHOOSE r \in ses.model_config : TRUE).model_type
                                /\ m.is_default
                                /\ m.id # ses.model_config_id}

\* "If setting as default, unset other defaults": the rows the SELECT
\* returns.  create filters by the new row's type; update by the loaded
\* row's type, leaving out the row itself.
CurrentDefaults(ses) ==
    IF ses.op = "create"
    THEN {m \in model_configs : /\ m.user_id = ses.user
                                /\ m.model_type = ses.inp.model_type
                                /\ m.is_default}
    ELSE {m \in model_configs : /\ m.user_id = ses.user
                                /\ m.model_type = (CHOOSE r \in ses.model_config : TRUE).model_type
                                /\ m.is_default
                                /\ m.id # ses.model_config_id}

select_current_defaults(s) ==
    /\ sessions[s].pc = "select_defaults"
    /\ sessions' = [sessions EXCEPT ![s] =
                       [sessions[s] EXCEPT !.current_defaults = CurrentDefaults(sessions[s]),
                                           !.pc = "commit"]]
    /\ UNCHANGED <<model_configs, next_model_config_id, registry_vars, store_vars, import_vars, post_vars, reply, call_vars, template_vars, last>>

\* C1 mutant: the loop that clears the current defaults does nothing.
UnsetNoDefaults(rows, current_defaults) == rows

\* for default_model in current_defaults: default_model.is_default = False
\* written at the flush as UPDATE ... SET is_default = false WHERE id = ...
UnsetDefaults(rows, current_defaults) ==
    {IF \E d \in current_defaults : d.id = m.id
     THEN [m EXCEPT !.is_default = FALSE] ELSE m : m \in rows}

\* An UPDATE of a loaded row that is gone matches no row: StaleDataError.
Stale(loaded) == \E d \in loaded : ~\E m \in model_configs : m.id = d.id

Bool(v) == v = "true"

\* The attributes setattr changed on the loaded row (exclude_unset drops
\* the fields left out); only these are written.
EnabledChanged(ses, row) ==
    ses.inp.is_enabled # "unset" /\ (ses.inp.is_enabled = "null" \/ Bool(ses.inp.is_enabled) # row.is_enabled)

DefaultChanged(ses, row) ==
    ses.inp.is_default # "unset" /\ (ses.inp.is_default = "null" \/ Bool(ses.inp.is_default) # row.is_default)

\* db.commit() of a create: the cleared defaults and the INSERT.
CommitCreate(s) ==
    LET ses == sessions[s]
        duplicate == \E m \in model_configs :
                        /\ m.user_id = ses.user
                        /\ m.provider = ses.inp.provider
                        /\ m.model_id = ses.inp.model_id
                        /\ m.model_type = ses.inp.model_type
        row == ModelConfig(next_model_config_id, ses.user, ses.inp.provider,
                           ses.inp.model_id, ses.inp.model_type,
                           Bool(ses.inp.is_enabled), Bool(ses.inp.is_default))
    IN  IF Stale(ses.current_defaults) \/ duplicate
        THEN /\ Finish(s, 500)
             /\ UNCHANGED <<model_configs, next_model_config_id>>
        ELSE /\ model_configs' = UnsetDefaults(model_configs, ses.current_defaults) \cup {row}
             /\ next_model_config_id' = next_model_config_id + 1
             /\ Finish(s, 201)

\* db.commit() of an update: the cleared defaults and the changed
\* attributes of the row.  A null in a NOT NULL column fails the flush.
CommitUpdate(s) ==
    LET ses == sessions[s]
        loaded == CHOOSE r \in ses.model_config : TRUE
        dirty == EnabledChanged(ses, loaded) \/ DefaultChanged(ses, loaded)
        null == \/ ses.inp.is_enabled = "null"
                \/ ses.inp.is_default = "null"
        gone == ~\E m \in model_configs : m.id = loaded.id
        Write(m) == [m EXCEPT !.is_enabled = IF EnabledChanged(ses, loaded)
                                             THEN Bool(ses.inp.is_enabled) ELSE @,
                              !.is_default = IF DefaultChanged(ses, loaded)
                                             THEN Bool(ses.inp.is_default) ELSE @]
    IN  IF Stale(ses.current_defaults) \/ null \/ (dirty /\ gone)
        THEN /\ Finish(s, 500)
             /\ UNCHANGED <<model_configs, next_model_config_id>>
        ELSE /\ model_configs' =
                   {IF m.id = loaded.id THEN Write(m) ELSE m :
                        m \in UnsetDefaults(model_configs, ses.current_defaults)}
             /\ Finish(s, IF gone THEN 500 ELSE 200)
             /\ UNCHANGED next_model_config_id

\* db.delete(model_config); db.commit()
CommitDelete(s) ==
    /\ model_configs' = {m \in model_configs : m.id # sessions[s].model_config_id}
    /\ Finish(s, 204)
    /\ UNCHANGED next_model_config_id

db_commit(s) ==
    /\ sessions[s].pc = "commit"
    /\ CASE sessions[s].op = "create" -> CommitCreate(s)
         [] sessions[s].op = "update" -> CommitUpdate(s)
         [] OTHER -> CommitDelete(s)
    /\ UNCHANGED <<registry_vars, store_vars, import_vars, post_vars, reply, call_vars, template_vars, last>>

----------------------------------------------------------------------------
(* Strings *)

\* sub in s
Contains(s, sub) ==
    \E i \in 1..(Len(s) - Len(sub) + 1) : SubSeq(s, i, i + Len(sub) - 1) = sub

\* "".join(list): the separator left out
RECURSIVE JoinNoSeparator(_, _)
JoinNoSeparator(list, sep) ==
    IF list = << >> THEN "" ELSE Head(list) \o JoinNoSeparator(Tail(list), sep)

\* sep.join(list)
RECURSIVE Join(_, _)
Join(list, sep) ==
    IF list = << >> THEN ""
    ELSE IF Len(list) = 1 THEN list[1]
    ELSE list[1] \o sep \o Join(Tail(list), sep)

\* str(n) of an int
Str(n) == ToString(n)

----------------------------------------------------------------------------
(* utils/encryption.py *)

\* A Fernet token is <<key, plaintext>>: it decrypts under the key it was
\* encrypted with and under no other.  << >> is the empty string.
Token(key, plain_value) == <<key, plain_value>>

Returned(value) == [raised |-> FALSE, msg |-> "", value |-> value]

Raised(msg) == [raised |-> TRUE, msg |-> msg, value |-> ""]

\* decrypt_value: get_encryption_service().decrypt(encrypted_value)
decrypt_value(encrypted_value) ==
    IF ENCRYPTION_KEY = ""
    THEN Raised("ENCRYPTION_KEY not set in environment. "
                \o "Generate one with: python -c 'from cryptography.fernet import Fernet; print(Fernet.generate_key().decode())'")
    ELSE IF encrypted_value = << >>
    THEN Raised("Cannot decrypt empty value")
    ELSE IF encrypted_value[1] # ENCRYPTION_KEY
    THEN Raised("Decryption failed: Invalid or corrupted encrypted value")
    ELSE Returned(encrypted_value[2])

----------------------------------------------------------------------------
(* Rows of the store *)

\* models/credential.py
Credential(id, user_id, key, encrypted_value) ==
    [id |-> id, user_id |-> user_id, key |-> key, encrypted_value |-> encrypted_value,
     description |-> {}]

\* models/prompt.py: selected_customers is a dict category name -> bool
Prompt(id, user_id, name, details, selected_customers) ==
    [id |-> id, user_id |-> user_id, name |-> name, details |-> details,
     selected_customers |-> selected_customers, tag_id |-> {}]

\* models/customer_info.py: details is a list of {prompt, response} pairs
CustomerInfo(id, user_id, category, details) ==
    [id |-> id, user_id |-> user_id, category |-> category, details |-> details]

\* models/template.py
Template(id, user_id, name, category, tag_list, content) ==
    [id |-> id, user_id |-> user_id, name |-> name, category |-> category,
     tags |-> tag_list, content |-> content]

RANDOM_CATEGORIES == {"Pain", "Pleasures", "Desires", "Relatable Truths"}

ALL_PAIRS_CATEGORIES == {"Customer Persona", "Artist Persona", "Brand", "In Groups and Out Groups"}

IGNORED_CATEGORIES == {"Pun Primer", "USP", "Roles"}

CustomerCategory == RANDOM_CATEGORIES \cup ALL_PAIRS_CATEGORIES \cup IGNORED_CATEGORIES

----------------------------------------------------------------------------
(* The provider instances and what their capability methods return.        *)
(*                                                                         *)
(* What the vendor answers is outside the program: a call of a provider    *)
(* is given its behaviour as an input.  The constructor can raise (the     *)
(* vendor SDK's client is built there); the capability method returns a    *)
(* response with success true or false, carrying whatever request_id the   *)
(* provider chose, or raises.                                              *)

ProviderBehaviour ==
    { [kind |-> "init_raises", success |-> FALSE, payload |-> "", error |-> "client init failed",
       request_id |-> ""],
      [kind |-> "raises", success |-> FALSE, payload |-> "", error |-> "provider crashed",
       request_id |-> ""],
      [kind |-> "returns", success |-> TRUE, payload |-> "generated", error |-> "",
       request_id |-> "vendor-req-1"],
      [kind |-> "returns", success |-> TRUE, payload |-> "", error |-> "", request_id |-> ""],
      [kind |-> "returns", success |-> FALSE, payload |-> "", error |-> "401 invalid api key",
       request_id |-> "vendor-req-2"],
      [kind |-> "returns", success |-> FALSE, payload |-> "", error |-> "rate limited",
       request_id |-> ""] }

\* provider_class(api_key=api_key, model_id=model_id)
ProviderInstance(provider_class, api_key, model_id) ==
    [provider_class |-> provider_class, api_key |-> api_key, model_id |-> model_id]

GenerationResponse(content, model_used, provider, error, success, request_id) ==
    [content |-> content, model_used |-> model_used, provider |-> provider,
     error |-> error, success |-> success, request_id |-> request_id]

ImageGenerationResponse(image_data, model_used, provider, error, success, request_id) ==
    [image_data |-> image_data, model_used |-> model_used, provider |-> provider,
     error |-> error, success |-> success, request_id |-> request_id]

VisionResponse(extracted_text, model_used, provider, error, success, request_id) ==
    [extracted_text |-> extracted_text, model_used |-> model_used, provider |-> provider,
     error |-> error, success |-> success, request_id |-> request_id]

\* provider.generate(generation_request)
generate(provider, behaviour) ==
    GenerationResponse(behaviour.payload, provider.model_id,
                       Class(provider.provider_class).PROVIDER_NAME,
                       IF behaviour.success THEN {} ELSE {behaviour.error},
                       behaviour.success, behaviour.request_id)

\* provider.generate_image(generation_request)
provider_generate_image(provider, behaviour) ==
    ImageGenerationResponse(IF behaviour.success THEN {behaviour.payload} ELSE {},
                            provider.model_id,
                            Class(provider.provider_class).PROVIDER_NAME,
                            IF behaviour.success THEN {} ELSE {behaviour.error},
                            behaviour.success, behaviour.request_id)

\* provider.extract_text(vision_request)
extract_text(provider, behaviour) ==
    VisionResponse(behaviour.payload, provider.model_id,
                   Class(provider.provider_class).PROVIDER_NAME,
                   IF behaviour.success THEN {} ELSE {behaviour.error},
                   behaviour.success, behaviour.request_id)

\* ProviderFactory.create_text_provider: None for a name not registered
create_text_provider(provider_name, api_key, model_id) ==
    {ProviderInstance(c, api_key, model_id) : c \in DictGet(_text_providers, provider_name)}

create_image_provider(provider_name, api_key, model_id) ==
    {ProviderInstance(c, api_key, model_id) : c \in DictGet(_image_providers, provider_name)}

create_vision_provider(provider_name, api_key, model_id) ==
    {ProviderInstance(c, api_key, model_id) : c \in DictGet(_vision_providers, provider_name)}

----------------------------------------------------------------------------
(* What an orchestrator did during a request: the credential query it      *)
(* issued (the key list it filtered by), the credential it handed to       *)
(* decrypt_value, how often it asked the factory for an instance, the      *)
(* instance it got, the request it built, how often it invoked the         *)
(* capability method and what the method returned.                         *)

NoTrace ==
    [query |-> {}, credential |-> {}, constructions |-> 0, instance |-> {}, request |-> {},
     calls |-> 0, returned |-> {}, saves |-> 0, save_raised |-> "none", added |-> {}]

\* raise ValueError(msg) inside the orchestrator's try block
Except(msg, trace) ==
    [raised |-> TRUE, exc |-> "ValueError", msg |-> msg, response |-> {}, template |-> {},
     trace |-> trace]

\* An exception of the vendor's SDK raised by the provider's constructor or
\* by its capability method
ProviderExcept(msg, trace) == [Except(msg, trace) EXCEPT !.exc = "Exception"]

\* return response (and the template, for OCR)
Return(response, template, trace) ==
    [raised |-> FALSE, exc |-> "", msg |-> "", response |-> {response}, template |-> template,
     trace |-> trace]

\* result.scalars().first(): the store returns the matching rows in an
\* order of its own; prefer names the row that comes first.
First(rows, prefer) ==
    IF \E r \in rows : r.id = prefer
    THEN {r \in rows : r.id = prefer}
    ELSE IF rows = {} THEN {} ELSE {CHOOSE r \in rows : TRUE}

\* The outcome of _get_credentials_for_provider with the query and the
\* decrypted row it went through.
Lookup(result, query, credential) ==
    [raised |-> result.raised, msg |-> result.msg, value |-> result.value,
     query |-> query, credential |-> credential]

----------------------------------------------------------------------------
(* services/generation_service.py *)

_load_prompt(user_id, prompt_id) ==
    {p \in prompts : p.id = prompt_id /\ p.user_id = user_id}

_load_model_config(user_id, model_config_id) ==
    {m \in model_configs : m.id = model_config_id /\ m.user_id = user_id}

\* pair.get(key, "")
Get(pair, key) == IF key \in DOMAIN pair THEN pair[key] ELSE ""

RECURSIVE PairLines(_)
PairLines(pairs) ==
    IF pairs = << >> THEN << >>
    ELSE <<"Prompt: " \o Get(Head(pairs), "prompt"),
           "Response: " \o Get(Head(pairs), "response")>> \o PairLines(Tail(pairs))

\* A section that holds the first pair only
FormatFirstPairOnly(category_name, pairs) ==
    Join(<<"### Customer " \o category_name \o " ###">>
         \o PairLines(SubSeq(pairs, 1, 1))
         \o <<"### End Customer " \o category_name \o " ###">>, "\n")

_format_customer_section(category_name, pairs) ==
    Join(<<"### Customer " \o category_name \o " ###">>
         \o PairLines(pairs)
         \o <<"### End Customer " \o category_name \o " ###">>, "\n")

\* The loop without random.choice: every category gets all its pairs
RECURSIVE InjectedSectionsAllPairs(_, _)
InjectedSectionsAllPairs(customer_infos, picks) ==
    IF customer_infos = << >> THEN << >>
    ELSE LET category == Head(customer_infos).category
             details == Head(customer_infos).details
             section == IF details = << >> THEN << >>
                        ELSE <<_format_customer_section(category, details)>>
         IN  section \o InjectedSectionsAllPairs(Tail(customer_infos), picks)

\* The loop over customer_infos: one section per row that has details.
\* picks[category] is the index random.choice draws for the category.
RECURSIVE InjectedSections(_, _)
InjectedSections(customer_infos, picks) ==
    IF customer_infos = << >> THEN << >>
    ELSE LET category == Head(customer_infos).category
             details == Head(customer_infos).details
             section == IF details = << >> THEN << >>
                        ELSE IF category \in RANDOM_CATEGORIES
                        THEN <<_format_customer_section(category, <<details[picks[category]]>>)>>
                        ELSE IF category \in ALL_PAIRS_CATEGORIES
                        THEN <<_format_customer_section(category, details)>>
                        ELSE << >>
         IN  section \o InjectedSections(Tail(customer_infos), picks)

\* The injection without its last test: the separator is appended even
\* when there is no section
InjectAlwaysAppends(user_id, prompt_template, selected_customers, order, picks) ==
    LET enabled_categories == {key \in DOMAIN selected_customers : selected_customers[key]}
        enabled_enums == {c \in enabled_categories : c \in CustomerCategory /\ c \notin IGNORED_CATEGORIES}
        Selected(ci) == ci.user_id = user_id /\ ci.category \in enabled_enums
        injected_sections == InjectedSections(SelectSeq(order, Selected), picks)
    IN  IF DOMAIN selected_customers = {} THEN prompt_template
        ELSE IF enabled_categories = {} THEN prompt_template
        ELSE IF enabled_enums = {} THEN prompt_template
        ELSE prompt_template \o "\n\n" \o Join(injected_sections, "\n\n")

\* The injection without the ignored policy: every enabled category is
\* loaded, and a category that is not random gets all its pairs
InjectIgnoredToo(user_id, prompt_template, selected_customers, order, picks) ==
    LET enabled_enums == {key \in DOMAIN selected_customers :
                              selected_customers[key] /\ key \in CustomerCategory}
        Selected(ci) == ci.user_id = user_id /\ ci.category \in enabled_enums
        Section(ci) == IF ci.category \in RANDOM_CATEGORIES
                       THEN _format_customer_section(ci.category,
                                                     <<ci.details[picks[ci.category]]>>)
                       ELSE _format_customer_section(ci.category, ci.details)
        WithDetails(ci) == Selected(ci) /\ ci.details # << >>
        customer_infos == SelectSeq(order, WithDetails)
        injected_sections == [i \in 1..Len(customer_infos) |-> Section(customer_infos[i])]
    IN  IF injected_sections # << >>
        THEN prompt_template \o "\n\n" \o Join(injected_sections, "\n\n")
        ELSE prompt_template

\* order lists the user's customer_info rows as the store returns them.
_inject_customer_info(user_id, prompt_template, selected_customers, order, picks) ==
    LET enabled_categories == {key \in DOMAIN selected_customers : selected_customers[key]}
        enabled_enums == {c \in enabled_categories : c \in CustomerCategory /\ c \notin IGNORED_CATEGORIES}
        Selected(ci) == ci.user_id = user_id /\ ci.category \in enabled_enums
        customer_infos == SelectSeq(order, Selected)
        injected_sections == InjectedSections(customer_infos, picks)
    IN  IF DOMAIN selected_customers = {} THEN prompt_template
        ELSE IF enabled_categories = {} THEN prompt_template
        ELSE IF enabled_enums = {} THEN prompt_template
        ELSE IF injected_sections # << >>
        THEN prompt_template \o "\n\n" \o Join(injected_sections, "\n\n")
        ELSE prompt_template

\* C3 mutant: a missing or undecryptable credential is passed over and
\* an empty key handed on.
GetCredentialsLenient(user_id, provider, prefer) ==
    LET valid_keys == get_valid_credentials_for_provider(provider, "text")
        credential == First({c \in credentials : c.user_id = user_id /\ InList(c.key, valid_keys)},
                            prefer)
        api_key == decrypt_value((CHOOSE c \in credential : TRUE).encrypted_value)
    IN  IF valid_keys = << >>
        THEN Lookup(Raised("No valid credential keys defined for provider '" \o provider \o "'"),
                    {}, {})
        ELSE IF credential = {} THEN Lookup(Returned(""), {valid_keys}, {})
        ELSE IF api_key.raised THEN Lookup(Returned(""), {valid_keys}, credential)
        ELSE Lookup(api_key, {valid_keys}, credential)

\* C9 mutant: the message of a missing credential gives the first
\* accepted key only.
GetCredentialsFirstKeyOnly(user_id, provider, prefer) ==
    LET valid_keys == get_valid_credentials_for_provider(provider, "text")
        credential == First({c \in credentials : c.user_id = user_id /\ InList(c.key, valid_keys)},
                            prefer)
        api_key == decrypt_value((CHOOSE c \in credential : TRUE).encrypted_value)
    IN  IF valid_keys = << >>
        THEN Lookup(Raised("No valid credential keys defined for provider '" \o provider \o "'"),
                    {}, {})
        ELSE IF credential = {}
        THEN Lookup(Raised("No credentials found for provider '" \o provider \o "'. "
                           \o "Please add: " \o valid_keys[1]),
                    {valid_keys}, {})
        ELSE IF api_key.raised
        THEN Lookup(Raised("Failed to decrypt credential: " \o api_key.msg), {valid_keys}, credential)
        ELSE Lookup(api_key, {valid_keys}, credential)

GenerationService_get_credentials_for_provider(user_id, provider, prefer) ==
    LET valid_keys == get_valid_credentials_for_provider(provider, "text")
        credential == First({c \in credentials : c.user_id = user_id /\ InList(c.key, valid_keys)},
                            prefer)
        api_key == decrypt_value((CHOOSE c \in credential : TRUE).encrypted_value)
    IN  IF valid_keys = << >>
        THEN Lookup(Raised("No valid credential keys defined for provider '" \o provider \o "'"),
                    {}, {})
        ELSE IF credential = {}
        THEN Lookup(Raised("No credentials found for provider '" \o provider \o "'. "
                           \o "Please add one of: " \o Join(valid_keys, ", ")),
                    {valid_keys}, {})
        ELSE IF api_key.raised
        THEN Lookup(Raised("Failed to decrypt credential: " \o api_key.msg), {valid_keys}, credential)
        ELSE Lookup(api_key, {valid_keys}, credential)

\* The try block of generate_text
GenerateTextTry(user, prompt_id, model_config_id, request_id, order, picks, prefer, behaviour) ==
    LET prompt == _load_prompt(user, prompt_id)
        p == CHOOSE x \in prompt : TRUE
        rendered_prompt == _inject_customer_info(user, p.details, p.selected_customers, order, picks)
        model_config == _load_model_config(user, model_config_id)
        m == CHOOSE x \in model_config : TRUE
        api_key == GenerationService_get_credentials_for_provider(user, m.provider, prefer)
        resolved == [NoTrace EXCEPT !.query = api_key.query, !.credential = api_key.credential]
        provider == create_text_provider(m.provider, api_key.value, m.model_id)
        asked == [resolved EXCEPT !.constructions = 1]
        called == [asked EXCEPT !.instance = provider, !.request = {rendered_prompt},
                                !.calls = 1]
        response == generate(CHOOSE x \in provider : TRUE, behaviour)
    IN  IF prompt = {}
        THEN Except("Prompt with ID " \o Str(prompt_id) \o " not found", NoTrace)
        ELSE IF model_config = {}
        THEN Except("Model configuration with ID " \o Str(model_config_id) \o " not found", NoTrace)
        ELSE IF ~m.is_enabled
        THEN Except("Model " \o m.model_id \o " is disabled", NoTrace)
        ELSE IF api_key.raised
        THEN Except(api_key.msg, resolved)
        ELSE IF provider = {}
        THEN Except("Provider '" \o m.provider \o "' not found", asked)
        ELSE IF behaviour.kind = "init_raises"
        THEN ProviderExcept(behaviour.error, asked)
        ELSE IF behaviour.kind = "raises"
        THEN ProviderExcept(behaviour.error, called)
        ELSE Return([response EXCEPT !.request_id = request_id], {},
                    [called EXCEPT !.returned = {response}])

\* C4 mutant: the except clause of generate_text is gone.
GenerateTextNoExcept(run, request_id) == run

\* except Exception as e: the failure response of generate_text
GenerateTextExcept(run, request_id) ==
    IF run.raised
    THEN Return(GenerationResponse("", "", "", {run.msg}, FALSE, request_id), {}, run.trace)
    ELSE run

----------------------------------------------------------------------------
(* services/image_generation_service.py *)

\* C10 mutant: the credential query leaves the user filter out.
GetImageCredentialsOfAnyUser(user_id, provider, prefer) ==
    LET valid_keys == get_valid_credentials_for_provider(provider, "image")
        credential == First({c \in credentials : InList(c.key, valid_keys)}, prefer)
        api_key == decrypt_value((CHOOSE c \in credential : TRUE).encrypted_value)
    IN  IF valid_keys = << >>
        THEN Lookup(Raised("No valid credential keys defined for provider '" \o provider \o "'"),
                    {}, {})
        ELSE IF credential = {}
        THEN Lookup(Raised("No credentials found for provider '" \o provider \o "'. "
                           \o "Please add one of: " \o Join(valid_keys, ", ")),
                    {valid_keys}, {})
        ELSE IF api_key.raised
        THEN Lookup(Raised("Failed to decrypt credential: " \o api_key.msg), {valid_keys}, credential)
        ELSE Lookup(api_key, {valid_keys}, credential)

ImageGenerationService_get_credentials_for_provider(user_id, provider, prefer) ==
    LET valid_keys == get_valid_credentials_for_provider(provider, "image")
        credential == First({c \in credentials : c.user_id = user_id /\ InList(c.key, valid_keys)},
                            prefer)
        api_key == decrypt_value((CHOOSE c \in credential : TRUE).encrypted_value)
    IN  IF valid_keys = << >>
        THEN Lookup(Raised("No valid credential keys defined for provider '" \o provider \o "'"),
                    {}, {})
        ELSE IF credential = {}
        THEN Lookup(Raised("No credentials found for provider '" \o provider \o "'. "
                           \o "Please add one of: " \o Join(valid_keys, ", ")),
                    {valid_keys}, {})
        ELSE IF api_key.raised
        THEN Lookup(Raised("Failed to decrypt credential: " \o api_key.msg), {valid_keys}, credential)
        ELSE Lookup(api_key, {valid_keys}, credential)

\* The try block of generate_image
GenerateImageTry(user, prompt, model_config_id, request_id, prefer, behaviour) ==
    LET model_config == _load_model_config(user, model_config_id)
        m == CHOOSE x \in model_config : TRUE
        api_key == ImageGenerationService_get_credentials_for_provider(user, m.provider, prefer)
        resolved == [NoTrace EXCEPT !.query = api_key.query, !.credential = api_key.credential]
        provider == create_image_provider(m.provider, api_key.value, m.model_id)
        asked == [resolved EXCEPT !.constructions = 1]
        called == [asked EXCEPT !.instance = provider, !.request = {prompt}, !.calls = 1]
        response == provider_generate_image(CHOOSE x \in provider : TRUE, behaviour)
    IN  IF model_config = {}
        THEN Except("Model configuration with ID " \o Str(model_config_id) \o " not found", NoTrace)
        ELSE IF ~m.is_enabled
        THEN Except("Model " \o m.model_id \o " is disabled", NoTrace)
        ELSE IF api_key.raised
        THEN Except(api_key.msg, resolved)
        ELSE IF provider = {}
        THEN Except("Image provider '" \o m.provider \o "' not found", asked)
        ELSE IF behaviour.kind = "init_raises"
        THEN ProviderExcept(behaviour.error, asked)
        ELSE IF behaviour.kind = "raises"
        THEN ProviderExcept(behaviour.error, called)
        ELSE Return([response EXCEPT !.request_id = request_id], {},
                    [called EXCEPT !.returned = {response}])

\* C6 mutant: the failure response of generate_image leaves request_id out.
GenerateImageExceptNoId(run, request_id) ==
    IF run.raised
    THEN Return(ImageGenerationResponse({}, "", "", {run.msg}, FALSE, ""), {}, run.trace)
    ELSE run

\* except Exception as e: the failure response of generate_image
GenerateImageExcept(run, request_id) ==
    IF run.raised
    THEN Return(ImageGenerationResponse({}, "", "", {run.msg}, FALSE, request_id), {}, run.trace)
    ELSE run

----------------------------------------------------------------------------
(* services/ocr_service.py *)

SUPPORTED_IMAGE_TYPES == <<"png", "jpg", "jpeg", "gif", "webp">>

MAX_IMAGE_SIZE_BYTES == 20 * 1024 * 1024

DEFAULT_OCR_PROMPT ==
    "Extract all text from this image. Return only the extracted text, "
    \o "preserving the original formatting and structure as much as possible."

\* The image bytes of an upload: what they are and how many.
ImageData(bytes, len) == [bytes |-> bytes, len |-> len]

\* base64 left out: the bytes as they came
NoEncoding(image_data) == image_data.bytes

\* base64.b64encode(image_data).decode("utf-8")
b64encode(image_data) ==
    IF image_data.bytes = "" THEN "" ELSE "base64:" \o image_data.bytes

\* s[:n]
Slice(s, n) == IF Len(s) > n THEN SubSeq(s, 1, n) ELSE s

\* the index of the last "." of s
LastDot(s) ==
    CHOOSE i \in 1..Len(s) :
        /\ SubSeq(s, i, i) = "."
        /\ \A j \in (i + 1)..Len(s) : SubSeq(s, j, j) # "."

\* s.rsplit(".", 1)[0] and s.rsplit(".", 1)[-1] of an s that has a "."
BeforeLastDot(s) == SubSeq(s, 1, LastDot(s) - 1)

AfterLastDot(s) == SubSeq(s, LastDot(s) + 1, Len(s))

\* c.lower() of one character
LowerCase ==
    [c \in {"A", "B", "C", "D", "E", "F", "G", "H", "I", "J", "K", "L", "M",
            "N", "O", "P", "Q", "R", "S", "T", "U", "V", "W", "X", "Y", "Z"} |->
        CASE c = "A" -> "a" [] c = "B" -> "b" [] c = "C" -> "c" [] c = "D" -> "d"
          [] c = "E" -> "e" [] c = "F" -> "f" [] c = "G" -> "g" [] c = "H" -> "h"
          [] c = "I" -> "i" [] c = "J" -> "j" [] c = "K" -> "k" [] c = "L" -> "l"
          [] c = "M" -> "m" [] c = "N" -> "n" [] c = "O" -> "o" [] c = "P" -> "p"
          [] c = "Q" -> "q" [] c = "R" -> "r" [] c = "S" -> "s" [] c = "T" -> "t"
          [] c = "U" -> "u" [] c = "V" -> "v" [] c = "W" -> "w" [] c = "X" -> "x"
          [] c = "Y" -> "y" [] OTHER -> "z"]

LowerChar(c) == IF c \in DOMAIN LowerCase THEN LowerCase[c] ELSE c

\* s.lower()
RECURSIVE Lower(_)
Lower(s) ==
    IF Len(s) = 0 THEN ""
    ELSE LowerChar(SubSeq(s, 1, 1)) \o Lower(SubSeq(s, 2, Len(s)))

_get_image_type(filename) ==
    IF ~Contains(filename, ".") THEN ""
    ELSE LET ext == Lower(AfterLastDot(filename))
         IN  IF ext = "jpeg" THEN "jpg" ELSE ext

\* C7 mutant: process_image refuses a provider without accepted keys, as
\* the two other orchestrators do.
GetVisionCredentialsStrict(user_id, provider, prefer) ==
    LET valid_keys == get_valid_credentials_for_provider(provider, "vision")
        credential == First({c \in credentials : c.user_id = user_id /\ InList(c.key, valid_keys)},
                            prefer)
        api_key == decrypt_value((CHOOSE c \in credential : TRUE).encrypted_value)
    IN  IF valid_keys = << >>
        THEN Lookup(Raised("No valid credential keys defined for provider '" \o provider \o "'"),
                    {}, {})
        ELSE IF credential = {}
        THEN Lookup(Raised("No credentials found for provider '" \o provider \o "'. "
                           \o "Please add one of: " \o Join(valid_keys, ", ")),
                    {valid_keys}, {})
        ELSE IF api_key.raised
        THEN Lookup(Raised("Failed to decrypt credential: " \o api_key.msg), {valid_keys}, credential)
        ELSE Lookup(api_key, {valid_keys}, credential)

OCRService_get_credentials_for_provider(user_id, provider, prefer) ==
    LET valid_keys == get_valid_credentials_for_provider(provider, "vision")
        credential == First({c \in credentials : c.user_id = user_id /\ InList(c.key, valid_keys)},
                            prefer)
        api_key == decrypt_value((CHOOSE c \in credential : TRUE).encrypted_value)
    IN  IF valid_keys = << >>
        THEN Lookup(Returned(""), {}, {})
        ELSE IF credential = {}
        THEN Lookup(Raised("No credentials found for provider '" \o provider \o "'. "
                           \o "Please add one of: " \o Join(valid_keys, ", ")),
                    {valid_keys}, {})
        ELSE IF api_key.raised
        THEN Lookup(Raised("Failed to decrypt credential: " \o api_key.msg), {valid_keys}, credential)
        ELSE Lookup(api_key, {valid_keys}, credential)

\* What the session does to the new row: the commit and the refresh that
\* follows it can each raise.
DbFault == {"none", "commit", "refresh"}

\* C22 mutant: the template is filed under the default category and tags,
\* whatever the caller supplied.
CreateCustomTemplate(user_id, extracted_text, template_name, template_tags, image_filename, fault) ==
    IF fault # "none" THEN {}
    ELSE {Template(next_template_id, user_id, "OCR: " \o image_filename, "custom",
                   <<"ocr", "extracted">>, extracted_text)}

\* _create_ocr_template: the row it returns, None when the commit or the
\* refresh raises.  template_name and template_tags are Optional.
_create_ocr_template(user_id, extracted_text, template_name, template_tags, image_filename, fault) ==
    LET base_name == IF Contains(image_filename, ".")
                     THEN BeforeLastDot(image_filename) ELSE image_filename
        name == IF template_name = {} \/ template_name = {""}
                THEN "OCR: " \o base_name
                ELSE CHOOSE n \in template_name : TRUE
        tag_list == IF template_tags = {} \/ template_tags = {<< >>}
                THEN <<"ocr", "extracted">>
                ELSE CHOOSE t \in template_tags : TRUE
    IN  IF fault # "none" THEN {}
        ELSE {Template(next_template_id, user_id, Slice(name, 255), "ocr", tag_list, extracted_text)}

\* The try block of process_image.  upload carries image_data,
\* image_filename, custom_prompt, template_name, template_tags.
ProcessImageTry(user, upload, model_config_id, request_id, prefer, behaviour, fault) ==
    LET image_type == _get_image_type(upload.image_filename)
        base64_data == b64encode(upload.image_data)
        model_config == _load_model_config(user, model_config_id)
        m == CHOOSE x \in model_config : TRUE
        api_key == OCRService_get_credentials_for_provider(user, m.provider, prefer)
        resolved == [NoTrace EXCEPT !.query = api_key.query, !.credential = api_key.credential]
        provider == create_vision_provider(m.provider, api_key.value, m.model_id)
        vision_request == [image_data |-> base64_data, image_type |-> image_type,
                           prompt |-> IF upload.custom_prompt = {} \/ upload.custom_prompt = {""}
                                      THEN DEFAULT_OCR_PROMPT
                                      ELSE CHOOSE c \in upload.custom_prompt : TRUE]
        asked == [resolved EXCEPT !.constructions = 1]
        called == [asked EXCEPT !.instance = provider, !.request = {vision_request},
                                !.calls = 1]
        response == extract_text(CHOOSE x \in provider : TRUE, behaviour)
        saving == response.success /\ response.extracted_text # ""
        template == IF saving
                    THEN _create_ocr_template(user, response.extracted_text, upload.template_name,
                                              upload.template_tags, upload.image_filename,
                                              fault)
                    ELSE {}
        \* self.db.add(template); await self.db.commit(): the row is in the
        \* table once the commit returned, whatever the refresh does
        added == IF saving /\ fault # "commit"
                 THEN _create_ocr_template(user, response.extracted_text, upload.template_name,
                                           upload.template_tags, upload.image_filename, "none")
                 ELSE {}
    IN  IF ~InList(image_type, SUPPORTED_IMAGE_TYPES)
        THEN Except("Unsupported image type. Supported: " \o Join(SUPPORTED_IMAGE_TYPES, ", "),
                    NoTrace)
        ELSE IF upload.image_data.len > MAX_IMAGE_SIZE_BYTES
        THEN Except("Image too large. Maximum size: "
                    \o Str(MAX_IMAGE_SIZE_BYTES \div (1024 * 1024)) \o "MB", NoTrace)
        ELSE IF model_config = {}
        THEN Except("Model configuration with ID " \o Str(model_config_id) \o " not found", NoTrace)
        ELSE IF m.model_type # "vision"
        THEN Except("Model " \o m.model_id \o " is not a vision model", NoTrace)
        ELSE IF ~m.is_enabled
        THEN Except("Model " \o m.model_id \o " is disabled", NoTrace)
        ELSE IF api_key.raised
        THEN Except(api_key.msg, resolved)
        ELSE IF provider = {}
        THEN Except("Vision provider '" \o m.provider \o "' not found", asked)
        ELSE IF behaviour.kind = "init_raises"
        THEN ProviderExcept(behaviour.error, asked)
        ELSE IF behaviour.kind = "raises"
        THEN ProviderExcept(behaviour.error, called)
        ELSE Return([response EXCEPT !.request_id = request_id], template,
                    [called EXCEPT !.returned = {response}, !.added = added,
                                   !.saves = IF saving THEN 1 ELSE 0,
                                   !.save_raised = IF saving THEN fault ELSE "none"])

\* C5 mutant: process_image reports a failed extraction in its own words.
ProcessImageRewording(run, request_id) ==
    IF run.raised
    THEN Return(VisionResponse("", "", "", {run.msg}, FALSE, request_id), {}, run.trace)
    ELSE IF \E r \in run.response : ~r.success
    THEN Return(VisionResponse("", "", "", {"OCR failed"}, FALSE, request_id), {}, run.trace)
    ELSE run

\* C21 mutant: a template that could not be saved fails the request.
ProcessImageExceptSaveFails(run, request_id) ==
    IF run.raised
    THEN Return(VisionResponse("", "", "", {run.msg}, FALSE, request_id), {}, run.trace)
    ELSE IF run.trace.save_raised # "none"
    THEN Return(VisionResponse("", "", "", {"Failed to create OCR template"}, FALSE, request_id),
                {}, run.trace)
    ELSE run

\* except Exception as e: the failure response of process_image, and no template
ProcessImageExcept(run, request_id) ==
    IF run.raised
    THEN Return(VisionResponse("", "", "", {run.msg}, FALSE, request_id), {}, run.trace)
    ELSE run

----------------------------------------------------------------------------
(* api/v1/generate.py: the HTTP endpoints of text and image generation *)

\* What the HTTP caller gets: the status code, the detail of an error and
\* the body of a success
HTTPResponse(status_code, detail, body) ==
    [status_code |-> status_code, detail |-> detail, body |-> body]

NoHTTPResponse == HTTPResponse(0, "", {})

\* raise HTTPException(status_code, detail) inside the endpoint's try
\* block; str() of it is "<status_code>: <detail>"
HTTPException(status_code, detail) ==
    [raised |-> TRUE, exc |-> "HTTPException", msg |-> Str(status_code) \o ": " \o detail,
     http |-> HTTPResponse(status_code, detail, {})]

\* An exception of the service call that reaches the endpoint
ServiceException(exc, msg) ==
    [raised |-> TRUE, exc |-> exc, msg |-> msg, http |-> NoHTTPResponse]

\* return of the endpoint: 200 with the response model
Respond(body) ==
    [raised |-> FALSE, exc |-> "", msg |-> "", http |-> HTTPResponse(200, "", {body})]

\* response.error or default
ErrorOr(error, default) ==
    IF error = {} \/ error = {""} THEN default ELSE CHOOSE e \in error : TRUE

TextGenerationResponse(content, model_used, provider, prompt_id, request_id) ==
    [content |-> content, model_used |-> model_used, provider |-> provider,
     prompt_id |-> prompt_id, success |-> TRUE, error |-> {}, request_id |-> request_id]

\* generate_text (POST /text), the try block: run is what
\* service.generate_text did
ApiGenerateTextTry(run, prompt_id) ==
    LET response == CHOOSE r \in run.response : TRUE
    IN  IF run.raised
        THEN ServiceException(run.exc, run.msg)
        ELSE IF ~response.success
        THEN HTTPException(500, ErrorOr(response.error, "Text generation failed"))
        ELSE Respond(TextGenerationResponse(response.content, response.model_used,
                                            response.provider, prompt_id,
                                            response.request_id))

\* generate_text (POST /text), the except clauses: ValueError first, then
\* Exception, which an HTTPException raised in the try block is too
ApiGenerateTextExcept(result) ==
    IF ~result.raised THEN result.http
    ELSE IF result.exc = "ValueError" THEN HTTPResponse(400, result.msg, {})
    ELSE HTTPResponse(500, "Text generation failed: " \o result.msg, {})

\* The parameters of ImageGenerationService.generate_image
GenerateImageParameters ==
    {"user", "prompt", "model_config_id", "size", "quality", "style", "n", "width", "height",
     "steps", "guidance"}

\* The keyword arguments the image endpoint calls it with
GenerateImageArguments ==
    {"user", "prompt", "model_config_id", "size", "quality", "style", "n", "width", "height",
     "steps", "guidance", "reference_image_url", "reference_image_strength"}

\* A call with a keyword argument the function does not take raises a
\* TypeError before the function's body runs
UnexpectedArguments == GenerateImageArguments \ GenerateImageParameters

ImageGenerationApiResponse(images, model_used, provider, request_id) ==
    [images |-> images, model_used |-> model_used, provider |-> provider,
     request_id |-> request_id]

\* generate_image (POST /image), the try block
ApiGenerateImageTry(run) ==
    LET response == CHOOSE r \in run.response : TRUE
    IN  IF UnexpectedArguments # {}
        THEN ServiceException("TypeError",
                 "ImageGenerationService.generate_image() got an unexpected keyword argument '"
                 \o (IF "reference_image_url" \in UnexpectedArguments
                     THEN "reference_image_url"
                     ELSE CHOOSE a \in UnexpectedArguments : TRUE) \o "'")
        ELSE IF run.raised
        THEN ServiceException(run.exc, run.msg)
        ELSE IF ~response.success
        THEN HTTPException(500, ErrorOr(response.error, "Image generation failed"))
        ELSE Respond(ImageGenerationApiResponse(response.image_data, response.model_used,
                                                response.provider, response.request_id))

\* generate_image (POST /image), the except clauses
ApiGenerateImageExcept(result) ==
    IF ~result.raised THEN result.http
    ELSE IF result.exc = "ValueError" THEN HTTPResponse(400, result.msg, {})
    ELSE HTTPResponse(500, "Image generation failed: " \o result.msg, {})

----------------------------------------------------------------------------
(* providers/image_providers/bfl_flux_provider.py                           *)
(*                                                                         *)
(* generate_image submits a job, polls its status and downloads the        *)
(* result: three kinds of HTTP request, each answered by the vendor.  flux *)
(* is the call in progress: where it is, the loop variable attempt, how    *)
(* many requests of each kind and how many sleeps it has made, the         *)
(* statuses its polls were answered and the bytes its download delivered.  *)

\* _poll_for_result(client, task_id, max_attempts: int = 60)
max_attempts == 60

\* dict.get(key, default)
GetOr(dict, key, default) == IF key \in DOMAIN dict THEN dict[key] ELSE default

\* What the vendor answers to a request: a status that raise_for_status()
\* rejects, a transport failure of httpx, a JSON document, or bytes
StatusError(status_code, text) ==
    [kind |-> "status_error", status_code |-> status_code, text |-> text]

TransportError(text) == [kind |-> "transport_error", text |-> text]

Json(result) == [kind |-> "json", result |-> result]

Content(content) == [kind |-> "content", content |-> content]

\* Answers to POST {BASE_URL}/{model_id}
SubmitAnswers ==
    { StatusError(402, "Insufficient credits"),
      TransportError("All connection attempts failed"),
      Json([status |-> "Pending"]),
      Json([id |-> ""]),
      Json([id |-> "task-7f3a"]) }

\* Answers to GET {BASE_URL}/get_result
PollAnswers ==
    { StatusError(500, "Internal Server Error"),
      TransportError("The read operation timed out"),
      Json([status |-> "Ready", sample |-> "https://delivery.bfl.ml/results/7f3a.png"]),
      Json([status |-> "Ready"]),
      Json([status |-> "Error", error |-> "Content Moderated"]),
      Json([status |-> "Error"]),
      Json([status |-> "Pending"]),
      Json([status |-> "Processing"]),
      Json([status |-> "Task not found"]),
      Json([id |-> "task-7f3a"]) }

\* Answers to GET image_url
DownloadAnswers ==
    { StatusError(404, "Not Found"), Content("png-bytes"), Content("") }

FluxIdle ==
    [pc |-> "idle", model_id |-> "", task_id |-> "", image_url |-> "", attempt |-> 0,
     posts |-> 0, polls |-> 0, sleeps |-> 0, downloads |-> 0, seen |-> {}, content |-> {},
     response |-> {}]

\* except Exception as e: return ImageGenerationResponse(error=str(e), success=False)
FluxFailed(f, error) ==
    [f EXCEPT !.pc = "returned",
              !.response = {ImageGenerationResponse({}, f.model_id,
                                                    BFLFluxProvider.PROVIDER_NAME, {error},
                                                    FALSE, "")}]

\* An exception of an HTTP request: httpx.HTTPStatusError has a handler of
\* its own, every other exception is reported with str(e)
FluxRequestFailed(f, answer) ==
    IF answer.kind = "status_error"
    THEN FluxFailed(f, "BFL API error: " \o Str(answer.status_code) \o " - " \o answer.text)
    ELSE FluxFailed(f, answer.text)

\* generate_image up to the poll loop: client.post(endpoint, ...) and the
\* task id of its answer
BFLFlux_generate_image(model_id, answer) ==
    /\ flux.pc = "idle"
    /\ LET f == [flux EXCEPT !.model_id = model_id, !.posts = @ + 1]
           task_id == GetOr(answer.result, "id", "")
       IN  flux' = IF answer.kind # "json" THEN FluxRequestFailed(f, answer)
                   ELSE IF task_id = "" THEN FluxFailed(f, "No task ID returned from BFL API")
                   ELSE [f EXCEPT !.pc = "poll", !.task_id = task_id]
    /\ UNCHANGED <<registry_vars, models_vars, store_vars, import_vars, post_vars, reply, template_vars, last, injection>>

\* range(max_attempts + 1): a loop that goes round once more
InRangeInclusive(attempt) == attempt <= max_attempts

\* attempt in range(max_attempts)
InRange(attempt) == attempt < max_attempts

\* _poll_for_result: one iteration of for attempt in range(max_attempts)
BFLFlux_poll_for_result(answer) ==
    /\ flux.pc = "poll"
    /\ InRange(flux.attempt)
    /\ LET status == GetOr(answer.result, "status", "None")
           f == [flux EXCEPT !.polls = @ + 1]
           g == [f EXCEPT !.seen = @ \cup {status}]
           image_url == GetOr(answer.result, "sample", "")
       IN  flux' = IF answer.kind # "json" THEN FluxRequestFailed(f, answer)
                   ELSE IF status = "Ready"
                   THEN IF image_url # ""
                        THEN [g EXCEPT !.pc = "download", !.image_url = image_url]
                        ELSE FluxFailed(g, "Failed to retrieve generated image")
                   ELSE IF status = "Error"
                   THEN FluxFailed(g, "BFL generation error: "
                                      \o GetOr(answer.result, "error", "Unknown error"))
                   ELSE [g EXCEPT !.attempt = @ + 1, !.sleeps = @ + 1]
    /\ UNCHANGED <<registry_vars, models_vars, store_vars, import_vars, post_vars, reply, template_vars, last, injection>>

\* _poll_for_result: the loop is exhausted
BFLFlux_poll_timed_out ==
    /\ flux.pc = "poll"
    /\ ~InRange(flux.attempt)
    /\ flux' = FluxFailed(flux, "BFL generation timed out")
    /\ UNCHANGED <<registry_vars, models_vars, store_vars, import_vars, post_vars, reply, template_vars, last, injection>>

\* _download_as_base64 and the rest of generate_image
BFLFlux_download_as_base64(answer) ==
    /\ flux.pc = "download"
    /\ LET f == [flux EXCEPT !.downloads = @ + 1]
           g == [f EXCEPT !.content = {answer.content}]
           image_data == b64encode(ImageData(answer.content, Len(answer.content)))
       IN  flux' = IF answer.kind # "content" THEN FluxRequestFailed(f, answer)
                   ELSE IF image_data # ""
                   THEN [g EXCEPT !.pc = "returned",
                                  !.response = {ImageGenerationResponse(
                                                    {image_data}, f.model_id,
                                                    BFLFluxProvider.PROVIDER_NAME, {}, TRUE,
                                                    "")}]
                   ELSE FluxFailed(g, "Failed to retrieve generated image")
    /\ UNCHANGED <<registry_vars, models_vars, store_vars, import_vars, post_vars, reply, template_vars, last, injection>>

----------------------------------------------------------------------------
(* A call of _inject_customer_info on its own: injection records the       *)
(* arguments, the order in which the store returned the user's records,    *)
(* what random.choice drew, and the text returned.                         *)

NoInjection ==
    [user_id |-> 0, prompt_template |-> "", selected_customers |-> << >>, order |-> << >>,
     picks |-> << >>, rendered |-> {}]

\* rendered_prompt = await self._inject_customer_info(user.id, prompt.details,
\*                                                   prompt.selected_customers)
inject_customer_info(prompt, order, picks) ==
    /\ injection = NoInjection
    /\ injection' = [user_id |-> prompt.user_id, prompt_template |-> prompt.details,
                     selected_customers |-> prompt.selected_customers, order |-> order,
                     picks |-> picks,
                     rendered |-> {_inject_customer_info(prompt.user_id, prompt.details,
                                                         prompt.selected_customers, order,
                                                         picks)}]
    /\ UNCHANGED <<registry_vars, models_vars, store_vars, import_vars, post_vars, reply, template_vars, last, flux>>

----------------------------------------------------------------------------
(* The orchestrator requests.  last records the request and its outcome:   *)
(* propagated tells whether an exception left the orchestrator; behaviour  *)
(* is how the provider answers a request that came through an endpoint.    *)

NoUpload ==
    [image_data |-> ImageData("", 0), image_filename |-> "", custom_prompt |-> {},
     template_name |-> {}, template_tags |-> {}]

Request(kind, user, request_id, prompt_id, model_config_id, upload, run) ==
    [kind |-> kind, user |-> user, request_id |-> request_id, prompt_id |-> prompt_id,
     model_config_id |-> model_config_id, upload |-> upload,
     response |-> run.response, template |-> run.template, propagated |-> run.raised,
     trace |-> run.trace, http |-> NoHTTPResponse, behaviour |-> {}]

NoRequest ==
    [kind |-> "none", user |-> 0, request_id |-> "", prompt_id |-> 0, model_config_id |-> 0,
     upload |-> NoUpload, response |-> {}, template |-> {}, propagated |-> FALSE,
     trace |-> NoTrace, http |-> NoHTTPResponse, behaviour |-> {}]

\* A generate_text whose injection takes the drawn pair out of the stored
\* record (details.pop in place of random.choice) and commits
generate_text_consuming_pair(user, prompt_id, model_config_id, request_id, order, picks, prefer, behaviour) ==
    /\ last' = Request("text", user, request_id, prompt_id, model_config_id, NoUpload,
                       GenerateTextExcept(
                           GenerateTextTry(user, prompt_id, model_config_id, request_id,
                                           order, picks, prefer, behaviour),
                           request_id))
    /\ customer_info' =
          {IF ci.user_id = user /\ ci.category \in RANDOM_CATEGORIES /\ ci.details # << >>
           THEN [ci EXCEPT !.details =
                    [j \in 1..(Len(ci.details) - 1) |->
                        IF j < picks[ci.category] THEN ci.details[j] ELSE ci.details[j + 1]]]
           ELSE ci : ci \in customer_info}
    /\ UNCHANGED <<registry_vars, models_vars, ENCRYPTION_KEY, credentials, prompts, import_vars, post_vars, reply,
                   call_vars, template_vars>>

\* GenerationService.generate_text; request_id is str(uuid.uuid4())
generate_text(user, prompt_id, model_config_id, request_id, order, picks, prefer, behaviour) ==
    /\ last' = Request("text", user, request_id, prompt_id, model_config_id, NoUpload,
                       GenerateTextExcept(
                           GenerateTextTry(user, prompt_id, model_config_id, request_id,
                                           order, picks, prefer, behaviour),
                           request_id))
    /\ UNCHANGED <<registry_vars, models_vars, store_vars, import_vars, post_vars, reply, call_vars, template_vars>>

\* ImageGenerationService.generate_image
generate_image(user, prompt, model_config_id, request_id, prefer, behaviour) ==
    /\ last' = Request("image", user, request_id, 0, model_config_id, NoUpload,
                       GenerateImageExcept(
                           GenerateImageTry(user, prompt, model_config_id, request_id,
                                            prefer, behaviour),
                           request_id))
    /\ UNCHANGED <<registry_vars, models_vars, store_vars, import_vars, post_vars, reply, call_vars, template_vars>>

\* OCRService.process_image: the template it creates is committed
process_image(user, upload, model_config_id, request_id, prefer, behaviour, fault) ==
    /\ next_template_id <= MaxTemplates
    /\ LET run == ProcessImageExcept(
                      ProcessImageTry(user, upload, model_config_id, request_id,
                                      prefer, behaviour, fault),
                      request_id)
       IN  /\ last' = Request("vision", user, request_id, 0, model_config_id, upload, run)
           /\ templates' = templates \cup run.trace.added
           /\ next_template_id' = IF run.trace.added # {} THEN next_template_id + 1
                                  ELSE next_template_id
    /\ UNCHANGED <<registry_vars, models_vars, store_vars, import_vars, post_vars, reply, call_vars>>

\* POST /text: the endpoint around GenerationService.generate_text
api_generate_text(user, prompt_id, model_config_id, request_id, order, picks, prefer, behaviour) ==
    /\ LET run == GenerateTextExcept(
                      GenerateTextTry(user, prompt_id, model_config_id, request_id,
                                      order, picks, prefer, behaviour),
                      request_id)
       IN  last' = [Request("text", user, request_id, prompt_id, model_config_id, NoUpload, run)
                       EXCEPT !.http = ApiGenerateTextExcept(ApiGenerateTextTry(run, prompt_id)),
                              !.behaviour = {behaviour}]
    /\ UNCHANGED <<registry_vars, models_vars, store_vars, import_vars, post_vars, reply, call_vars, template_vars>>

\* POST /image: the endpoint around ImageGenerationService.generate_image;
\* the service's body runs only when the call itself is accepted
api_generate_image(user, prompt, model_config_id, request_id, prefer, behaviour) ==
    /\ LET run == GenerateImageExcept(
                      GenerateImageTry(user, prompt, model_config_id, request_id,
                                       prefer, behaviour),
                      request_id)
           entered == UnexpectedArguments = {}
       IN  last' = [Request(IF entered THEN "image" ELSE "api_image", user, request_id, 0,
                            model_config_id, NoUpload,
                            IF entered THEN run ELSE [run EXCEPT !.response = {},
                                                                 !.trace = NoTrace])
                       EXCEPT !.http = ApiGenerateImageExcept(ApiGenerateImageTry(run)),
                              !.behaviour = {behaviour}]
    /\ UNCHANGED <<registry_vars, models_vars, store_vars, import_vars, post_vars, reply, call_vars, template_vars>>

\* ProviderFactory.register_text_provider
register_text_provider(name, provider_class) ==
    /\ _text_providers' = DictSet(_text_providers, name, provider_class)
    /\ UNCHANGED <<_image_providers, _vision_providers, models_vars, store_vars, import_vars, post_vars, reply, call_vars,
                   template_vars, last>>

\* ProviderFactory.register_image_provider
register_image_provider(name, provider_class) ==
    /\ _image_providers' = DictSet(_image_providers, name, provider_class)
    /\ UNCHANGED <<_text_providers, _vision_providers, models_vars, store_vars, import_vars, post_vars, reply, call_vars,
                   template_vars, last>>

\* ProviderFactory.register_vision_provider
register_vision_provider(name, provider_class) ==
    /\ _vision_providers' = DictSet(_vision_providers, name, provider_class)
    /\ UNCHANGED <<_text_providers, _image_providers, models_vars, store_vars, import_vars, post_vars, reply, call_vars,
                   template_vars, last>>

----------------------------------------------------------------------------
(* api/v1/import_data.py                                                   *)
(*                                                                         *)
(* import_data works in one session and one transaction: it adds and       *)
(* changes objects item by item and commits once at the end.  A request is *)
(* a session that advances statement by statement, as the handlers of the  *)
(* model configurations do.  A SELECT sees the committed rows and the rows *)
(* the session has flushed itself; an INSERT reaches the database when the *)
(* session flushes: at db.flush(), before a SELECT when the session        *)
(* factory has autoflush on, and at db.commit().  The unique indexes       *)
(* declared by the models are checked by the INSERT.  An INSERT of a key   *)
(* that another open transaction has inserted waits for that transaction   *)
(* to end.  After a flush that raised, the session's transaction is rolled *)
(* back and every later statement of the session raises until              *)
(* db.rollback().  app/database.py is not part of the sources, so          *)
(* autoflush is either value.                                              *)
(*                                                                         *)
(* The metadata columns of a prompt (url, media_file_path, aws_folder_url, *)
(* artwork_description, example_image) are copied like details and are     *)
(* left out.                                                               *)

ImportSession == {1, 2}

\* models/tag.py
Tag(id, name) == [id |-> id, name |-> name]

\* name = Column(String(50), unique=True, ...)
TagNameLength == 50

\* The items of the desktop application's export
DesktopCustomerInfo(name, details) == [name |-> name, details |-> details]

\* tag is Optional[str]
DesktopPrompt(name, details, selected_customers, tag) ==
    [name |-> name, details |-> details, selected_customers |-> selected_customers, tag |-> tag]

\* The three lists are Optional; the handler reads each as `x or []`, so
\* None is the empty list here.
ImportRequest(tag_list, customer_info_list, prompt_list) ==
    [tags |-> tag_list, customer_info |-> customer_info_list, prompts |-> prompt_list]

ImportResult(success, tags_imported, customer_info_imported, prompts_imported, errors) ==
    [success |-> success, tags_imported |-> tags_imported,
     customer_info_imported |-> customer_info_imported,
     prompts_imported |-> prompts_imported, errors |-> errors]

\* The desktop category names are the values of the enum
CATEGORY_MAP == [name \in CustomerCategory |-> name]

\* json.loads on the documents of the model; anything else is not JSON
json_loads(s) ==
    CASE s = "[]" -> Returned(<< >>)
      [] s = "[{\"prompt\": \"Q1\", \"response\": \"A1\"}]" ->
            Returned(<<[prompt |-> "Q1", response |-> "A1"]>>)
      [] s = "[{\"prompt\": \"Q2\", \"response\": \"A2\"}, {\"prompt\": \"Q1\", \"response\": \"A1\"}]" ->
            Returned(<<[prompt |-> "Q2", response |-> "A2"], [prompt |-> "Q1", response |-> "A1"]>>)
      [] OTHER -> Raised("JSONDecodeError")

\* A session before its request: new holds the objects given to db.add in
\* order, updated the loaded rows whose attributes were assigned, inactive
\* tells that a flush raised.  after and predecessors are history: the
\* user's persona records right after the commit and the sessions that had
\* ended when this one began.
ImportIdle ==
    [pc |-> "idle", user |-> 0, request |-> ImportRequest(<< >>, << >>, << >>), i |-> 1,
     tag_name_to_id |-> {}, new |-> << >>, updated |-> {}, inactive |-> FALSE,
     result |-> ImportResult(TRUE, 0, 0, 0, << >>), response |-> NoHTTPResponse,
     after |-> {}, predecessors |-> {}]

NoImports == [s \in ImportSession |-> ImportIdle]

\* The id the table's sequence hands to the k-th object a session adds
NewId(s, k) == 100 * s + k

Table(table) ==
    CASE table = "tags" -> tags
      [] table = "customer_info" -> customer_info
      [] OTHER -> prompts

\* The unique indexes: tags.name, idx_user_customer_category; prompts have
\* the primary key only
Key(table, row) ==
    CASE table = "tags" -> <<"tags", row.name>>
      [] table = "customer_info" -> <<"customer_info", row.user_id, row.category>>
      [] OTHER -> <<"prompts", row.id>>

Flushed(w, table) ==
    {w.new[k].row : k \in {j \in DOMAIN w.new : w.new[j].table = table /\ w.new[j].flushed}}

Unflushed(w) == {k \in DOMAIN w.new : ~w.new[k].flushed}

\* The rows of a table with the session's own assignments
Changed(w, table, rows) ==
    {IF \E u \in w.updated : u.table = table /\ u.row.id = r.id
     THEN (CHOOSE u \in w.updated : u.table = table /\ u.row.id = r.id).row
     ELSE r : r \in rows}

\* What a SELECT of the session returns from
Visible(w, table) == Changed(w, table, Table(table)) \cup Flushed(w, table)

Open(w) == w.pc \notin {"idle", "done"} /\ ~w.inactive

\* The keys inserted by a transaction that has not ended
Held(w) ==
    IF Open(w)
    THEN {Key(w.new[k].table, w.new[k].row) : k \in {j \in DOMAIN w.new : w.new[j].flushed}}
    ELSE {}

\* The session's next flush has to wait for another transaction
Waits(s) ==
    /\ ~imports[s].inactive
    /\ \E k \in Unflushed(imports[s]), o \in ImportSession \ {s} :
          Key(imports[s].new[k].table, imports[s].new[k].row) \in Held(imports[o])

\* C23 mutant: the table has no unique index.
NeverDuplicate(w, k) == FALSE

\* The INSERT of new[k] violates a unique index
Duplicate(w, k) ==
    LET key == Key(w.new[k].table, w.new[k].row)
    IN  \/ \E r \in Table(w.new[k].table) : Key(w.new[k].table, r) = key
        \/ \E j \in DOMAIN w.new : j # k /\ (w.new[j].flushed \/ j < k)
                                    /\ Key(w.new[j].table, w.new[j].row) = key

TooLong(w, k) == w.new[k].table = "tags" /\ Len(w.new[k].row.name) > TagNameLength

\* session.flush(): the INSERTs of the pending objects
Flush(w) ==
    IF \E k \in Unflushed(w) : TooLong(w, k)
    THEN [raised |-> TRUE, msg |-> "value too long for type character varying(50)",
          w |-> [w EXCEPT !.inactive = TRUE]]
    ELSE IF \E k \in Unflushed(w) : Duplicate(w, k)
    THEN [raised |-> TRUE, msg |-> "duplicate key value violates unique constraint",
          w |-> [w EXCEPT !.inactive = TRUE]]
    ELSE [raised |-> FALSE, msg |-> "",
          w |-> [w EXCEPT !.new = [k \in DOMAIN w.new |-> [w.new[k] EXCEPT !.flushed = TRUE]]]]

PendingRollbackError ==
    "This Session's transaction has been rolled back due to a previous exception during flush."

\* await db.execute(select(...)): the session the statement leaves behind
Execute(w) ==
    IF w.inactive THEN [raised |-> TRUE, msg |-> PendingRollbackError, w |-> w]
    ELSE IF autoflush THEN Flush(w)
    ELSE [raised |-> FALSE, msg |-> "", w |-> w]

\* result.errors.append(...)
AppendError(w, error) == [w EXCEPT !.result.errors = Append(@, error)]

\* db.add(row)
Add(w, table, row) == [w EXCEPT !.new = Append(@, [table |-> table, row |-> row, flushed |-> FALSE])]

\* C24 mutant: an assignment to a loaded object is lost.
AssignNothing(w, table, row) == w

\* Assigning attributes of an object the session loaded or added
Assign(w, table, row) ==
    IF \E k \in DOMAIN w.new : w.new[k].table = table /\ w.new[k].row.id = row.id
    THEN [w EXCEPT !.new = [k \in DOMAIN w.new |->
                               IF w.new[k].table = table /\ w.new[k].row.id = row.id
                               THEN [w.new[k] EXCEPT !.row = row] ELSE w.new[k]]]
    ELSE [w EXCEPT !.updated = {u \in @ : ~(u.table = table /\ u.row.id = row.id)}
                                \cup {[table |-> table, row |-> row]}]

\* A step of session s that commits nothing
ImportStep(s, w) ==
    /\ imports' = [imports EXCEPT ![s] = w]
    /\ UNCHANGED <<registry_vars, models_vars, store_vars, template_vars, call_vars, last,
                   tags, autoflush, post_vars, reply>>

\* except Exception as e: await db.rollback(); raise HTTPException(500, ...)
ImportFailed(w, msg) ==
    [w EXCEPT !.pc = "done", !.response = HTTPResponse(500, "Import failed: " \o msg, {})]

\* The statement after the tag loop, the persona loop and the prompt loop
AfterTags(w) == [w EXCEPT !.pc = "existing_tags", !.i = 1]

AfterCustomerInfo(w) ==
    [w EXCEPT !.pc = IF w.request.prompts # << >> THEN "prompts" ELSE "commit", !.i = 1]

AfterExistingTags(w) ==
    IF w.request.customer_info # << >> THEN [w EXCEPT !.pc = "customer_info", !.i = 1]
    ELSE AfterCustomerInfo(w)

NextTag(w) ==
    IF w.i < Len(w.request.tags) THEN [w EXCEPT !.pc = "tags", !.i = @ + 1] ELSE AfterTags(w)

NextCustomerInfo(w) ==
    IF w.i < Len(w.request.customer_info) THEN [w EXCEPT !.i = @ + 1] ELSE AfterCustomerInfo(w)

NextPrompt(w) ==
    IF w.i < Len(w.request.prompts) THEN [w EXCEPT !.i = @ + 1] ELSE [w EXCEPT !.pc = "commit"]

\* C27 mutant: the half is taken with integer division.
ImportSuccessFloorDivision(errors, request) ==
    IF errors = << >> THEN TRUE
    ELSE Len(errors) < (Len(request.tags) + Len(request.customer_info) + Len(request.prompts)) \div 2

\* result.success: len(errors) < total / 2, with Python's true division
ImportSuccess(errors, request) ==
    IF errors = << >> THEN TRUE
    ELSE 2 * Len(errors) < Len(request.tags) + Len(request.customer_info) + Len(request.prompts)

\* POST /import/ arrives: result = ImportResult(success=True)
import_data(s, user, request) ==
    /\ imports[s].pc = "idle"
    /\ ImportStep(s, [ImportIdle EXCEPT
                         !.pc = IF request.tags # << >> THEN "tags" ELSE "existing_tags",
                         !.user = user, !.request = request,
                         !.predecessors = {o \in ImportSession : imports[o].pc = "done"}])

\* One tag of the loop: the SELECT by name, and db.add(tag) when there is
\* no such tag
import_data_tag(s) ==
    LET w == imports[s]
        tag_data == w.request.tags[w.i]
        executed == Execute(w)
        existing == {t \in Visible(executed.w, "tags") : t.name = tag_data}
    IN  /\ w.pc = "tags"
        /\ ImportStep(s,
              IF executed.raised
              THEN NextTag(AppendError(executed.w, "Tag '" \o tag_data \o "': " \o executed.msg))
              ELSE IF existing # {}
              THEN NextTag([executed.w EXCEPT !.tag_name_to_id = @ \cup existing])
              ELSE [Add(executed.w, "tags", Tag(NewId(s, Len(w.new) + 1), tag_data))
                       EXCEPT !.pc = "tag_flush"])

\* await db.flush() of the new tag, the count and the map entry
import_data_tag_flush(s) ==
    LET w == imports[s]
        tag_data == w.request.tags[w.i]
        flushed == Flush(w)
    IN  /\ w.pc = "tag_flush"
        /\ ~Waits(s)
        /\ ImportStep(s,
              IF flushed.raised
              THEN NextTag(AppendError(flushed.w, "Tag '" \o tag_data \o "': " \o flushed.msg))
              ELSE NextTag([flushed.w EXCEPT
                               !.result.tags_imported = @ + 1,
                               !.tag_name_to_id = @ \cup {t \in Flushed(flushed.w, "tags") :
                                                             t.name = tag_data}]))

\* existing_tags = await db.execute(select(Tag)), outside the item handlers
import_data_existing_tags(s) ==
    LET w == imports[s]
        executed == Execute(w)
    IN  /\ w.pc = "existing_tags"
        /\ ImportStep(s,
              IF executed.raised THEN ImportFailed(executed.w, executed.msg)
              ELSE AfterExistingTags([executed.w EXCEPT
                                         !.tag_name_to_id = Visible(executed.w, "tags")]))

\* One persona item of the loop
import_data_customer_info(s) ==
    LET w == imports[s]
        ci_data == w.request.customer_info[w.i]
        category == DictGet(CATEGORY_MAP, ci_data.name)
        parsed == IF ci_data.details = "" THEN Returned(<< >>) ELSE json_loads(ci_data.details)
        details_array == IF parsed.raised THEN << >> ELSE parsed.value
        noted == IF parsed.raised
                 THEN AppendError(w, "Customer info '" \o ci_data.name \o "': Invalid JSON in details")
                 ELSE w
        executed == Execute(noted)
        existing == {r \in Visible(executed.w, "customer_info") :
                        r.user_id = w.user /\ r.category \in category}
        stored == IF existing # {}
                  THEN Assign(executed.w, "customer_info",
                              [(CHOOSE r \in existing : TRUE) EXCEPT !.details = details_array])
                  ELSE Add(executed.w, "customer_info",
                           CustomerInfo(NewId(s, Len(w.new) + 1), w.user,
                                        CHOOSE c \in category : TRUE, details_array))
    IN  /\ w.pc = "customer_info"
        /\ (category # {} /\ autoflush) => ~Waits(s)
        /\ ImportStep(s, NextCustomerInfo(
              IF category = {}
              THEN AppendError(w, "Customer info '" \o ci_data.name \o "': Unknown category")
              ELSE IF executed.raised
              THEN AppendError(executed.w, "Customer info '" \o ci_data.name \o "': " \o executed.msg)
              ELSE [stored EXCEPT !.result.customer_info_imported = @ + 1]))

\* One prompt of the loop
import_data_prompt(s) ==
    LET w == imports[s]
        prompt_data == w.request.prompts[w.i]
        executed == Execute(w)
        existing == {r \in Visible(executed.w, "prompts") :
                        r.user_id = w.user /\ r.name = prompt_data.name}
        named == {t \in w.tag_name_to_id : t.name \in prompt_data.tag /\ t.name # ""}
        tag_id == {t.id : t \in named}
        Filled(row) == [row EXCEPT !.details = prompt_data.details,
                                   !.selected_customers = prompt_data.selected_customers,
                                   !.tag_id = tag_id]
        stored == IF existing # {}
                  THEN Assign(executed.w, "prompts", Filled(CHOOSE r \in existing : TRUE))
                  ELSE Add(executed.w, "prompts",
                           Filled(Prompt(NewId(s, Len(w.new) + 1), w.user, prompt_data.name,
                                         prompt_data.details, prompt_data.selected_customers)))
    IN  /\ w.pc = "prompts"
        /\ autoflush => ~Waits(s)
        /\ ImportStep(s, NextPrompt(
              IF executed.raised
              THEN AppendError(executed.w, "Prompt '" \o prompt_data.name \o "': " \o executed.msg)
              ELSE IF Cardinality(existing) > 1
              THEN AppendError(executed.w, "Prompt '" \o prompt_data.name
                               \o "': Multiple rows were found when one or none was required")
              ELSE [stored EXCEPT !.result.prompts_imported = @ + 1]))

\* await db.commit(), the success flag and the return; or the rollback
import_data_commit(s) ==
    LET w == imports[s]
        flushed == IF w.inactive
                   THEN [raised |-> TRUE, msg |-> PendingRollbackError, w |-> w]
                   ELSE Flush(w)
        committed == Changed(w, "customer_info", customer_info)
                        \cup Flushed(flushed.w, "customer_info")
    IN  /\ w.pc = "commit"
        /\ ~Waits(s)
        /\ IF flushed.raised
           THEN ImportStep(s, ImportFailed(flushed.w, flushed.msg))
           ELSE /\ tags' = tags \cup Flushed(flushed.w, "tags")
                /\ customer_info' = committed
                /\ prompts' = Changed(w, "prompts", prompts) \cup Flushed(flushed.w, "prompts")
                /\ imports' = [imports EXCEPT ![s] =
                      [flushed.w EXCEPT
                          !.pc = "done",
                          !.result.success = ImportSuccess(w.result.errors, w.request),
                          !.response = HTTPResponse(200, "", {[w.result EXCEPT !.success =
                                           ImportSuccess(w.result.errors, w.request)]}),
                          !.after = {r \in committed : r.user_id = w.user}]]
                /\ UNCHANGED <<registry_vars, models_vars, ENCRYPTION_KEY, credentials,
                               template_vars, call_vars, last, autoflush, post_vars, reply>>

----------------------------------------------------------------------------
(* services/post_service.py                                                *)
(*                                                                         *)
(* A post is the row the service reads and writes: is_archived and         *)
(* archived_at are the columns migration 004 adds to the table and the     *)
(* service assigns (models/post.py does not list them).  Each method       *)
(* loads the post with get_post, assigns attributes and commits.  The      *)
(* timestamps are None or the time of the call.  The attributes an update *)
(* can assign None to are Optional.                                        *)

PostStatus == {"draft", "scheduled", "published"}

Post(id, user_id, content, status) ==
    [id |-> id, user_id |-> user_id, content |-> {content}, status |-> {status},
     is_archived |-> {FALSE}, archived_at |-> {}, published_at |-> {}]

\* What a method did: the row or rows it returned, the exception it raised
\* and the count a bulk method returned
PostCall(op, user_id, post_ids, returned, raised, msg, count) ==
    [op |-> op, user_id |-> user_id, post_ids |-> post_ids, returned |-> returned,
     raised |-> raised, msg |-> msg, count |-> count]

NoPostCall == PostCall("", 0, << >>, {}, FALSE, "", 0)

\* The outcome of one method on the table
PostOutcome(returned, raised, msg, table) ==
    [returned |-> returned, raised |-> raised, msg |-> msg, table |-> table]

\* PostService.get_post: the post of that id if the user owns it
get_post(table, user_id, post_id) == {p \in table : p.id = post_id /\ p.user_id = user_id}

\* The columns declared NOT NULL: the commit raises when one is None
NotNull(post) == post.content # {} /\ post.status # {} /\ post.is_archived # {}

\* setattr(post, field, value) for every field of update_data; a status
\* that is None is assigned as it is
SetAttrs(post, update_data) ==
    [f \in DOMAIN post |-> IF f \in DOMAIN update_data THEN update_data[f] ELSE post[f]]

\* PostService.update_post; update_data = post_data.model_dump(exclude_unset=True)
UpdatePost(table, user_id, post_id, update_data) ==
    LET post == get_post(table, user_id, post_id)
        p == CHOOSE x \in post : TRUE
        q == SetAttrs(p, update_data)
    IN  IF post = {} THEN PostOutcome({}, FALSE, "", table)
        ELSE IF ~NotNull(q) THEN PostOutcome({}, TRUE, "IntegrityError", table)
        ELSE PostOutcome({q}, FALSE, "", (table \ {p}) \cup {q})

\* PostService.delete_post
DeletePost(table, user_id, post_id) ==
    LET post == get_post(table, user_id, post_id)
    IN  PostOutcome(post, FALSE, "", table \ post)

\* PostService.publish_post
PublishPost(table, user_id, post_id) ==
    LET post == get_post(table, user_id, post_id)
        p == CHOOSE x \in post : TRUE
        q == [p EXCEPT !.status = {"published"}, !.published_at = {"utcnow"}]
    IN  IF post = {} THEN PostOutcome({}, FALSE, "", table)
        ELSE PostOutcome({q}, FALSE, "", (table \ {p}) \cup {q})

\* PostService.archive_post
ArchivePost(table, user_id, post_id) ==
    LET post == get_post(table, user_id, post_id)
        p == CHOOSE x \in post : TRUE
        q == [p EXCEPT !.is_archived = {TRUE}, !.archived_at = {"utcnow"}]
    IN  IF post = {} THEN PostOutcome({}, FALSE, "", table)
        ELSE IF p.status # {"published"}
        THEN PostOutcome({}, TRUE, "Only published posts can be archived", table)
        ELSE PostOutcome({q}, FALSE, "", (table \ {p}) \cup {q})

\* PostService.restore_post
RestorePost(table, user_id, post_id) ==
    LET post == get_post(table, user_id, post_id)
        p == CHOOSE x \in post : TRUE
        q == [p EXCEPT !.is_archived = {FALSE}, !.archived_at = {}]
    IN  IF post = {} THEN PostOutcome({}, FALSE, "", table)
        ELSE PostOutcome({q}, FALSE, "", (table \ {p}) \cup {q})

\* The loop of bulk_archive_posts from post_ids[k] on: a ValueError is
\* skipped; archived_count counts the posts archive_post returned
RECURSIVE BulkArchive(_, _, _, _, _)
BulkArchive(table, user_id, post_ids, k, done) ==
    IF k > Len(post_ids) THEN [returned |-> done, table |-> table]
    ELSE LET result == ArchivePost(table, user_id, post_ids[k])
         IN  BulkArchive(result.table, user_id, post_ids, k + 1,
                         IF ~result.raised /\ result.returned # {}
                         THEN Append(done, CHOOSE p \in result.returned : TRUE) ELSE done)

\* The loop of bulk_restore_posts
RECURSIVE BulkRestore(_, _, _, _, _)
BulkRestore(table, user_id, post_ids, k, done) ==
    IF k > Len(post_ids) THEN [returned |-> done, table |-> table]
    ELSE LET result == RestorePost(table, user_id, post_ids[k])
         IN  BulkRestore(result.table, user_id, post_ids, k + 1,
                         IF result.returned # {}
                         THEN Append(done, CHOOSE p \in result.returned : TRUE) ELSE done)

\* A method call: the table changes to the outcome's and post_call
\* records the call
PostStep(op, user_id, post_ids, result, count) ==
    /\ posts' = result.table
    /\ post_call' = PostCall(op, user_id, post_ids, result.returned, result.raised,
                             result.msg, count)
    /\ UNCHANGED <<registry_vars, models_vars, store_vars, template_vars, call_vars, last,
                   import_vars, reply>>

\* PostService.create_post
create_post(user_id, content, status) ==
    LET post == Post(next_post_id, user_id, content, status)
    IN  /\ PostStep("create_post", user_id, <<next_post_id>>,
                    PostOutcome({post}, FALSE, "", posts \cup {post}), 0)
        /\ next_post_id' = next_post_id + 1

\* GET /posts/{post_id}
read_post(user_id, post_id) ==
    /\ PostStep("get_post", user_id, <<post_id>>,
                PostOutcome(get_post(posts, user_id, post_id), FALSE, "", posts), 0)
    /\ UNCHANGED next_post_id

update_post(user_id, post_id, update_data) ==
    /\ PostStep("update_post", user_id, <<post_id>>,
                UpdatePost(posts, user_id, post_id, update_data), 0)
    /\ UNCHANGED next_post_id

delete_post(user_id, post_id) ==
    /\ PostStep("delete_post", user_id, <<post_id>>, DeletePost(posts, user_id, post_id), 0)
    /\ UNCHANGED next_post_id

publish_post(user_id, post_id) ==
    /\ PostStep("publish_post", user_id, <<post_id>>, PublishPost(posts, user_id, post_id), 0)
    /\ UNCHANGED next_post_id

archive_post(user_id, post_id) ==
    /\ PostStep("archive_post", user_id, <<post_id>>, ArchivePost(posts, user_id, post_id), 0)
    /\ UNCHANGED next_post_id

restore_post(user_id, post_id) ==
    /\ PostStep("restore_post", user_id, <<post_id>>, RestorePost(posts, user_id, post_id), 0)
    /\ UNCHANGED next_post_id

bulk_archive_posts(user_id, post_ids) ==
    LET result == BulkArchive(posts, user_id, post_ids, 1, << >>)
    IN  /\ PostStep("bulk_archive_posts", user_id, post_ids,
                    PostOutcome({result.returned[k] : k \in DOMAIN result.returned}, FALSE, "",
                                result.table),
                    Len(result.returned))
        /\ UNCHANGED next_post_id

bulk_restore_posts(user_id, post_ids) ==
    LET result == BulkRestore(posts, user_id, post_ids, 1, << >>)
    IN  /\ PostStep("bulk_restore_posts", user_id, post_ids,
                    PostOutcome({result.returned[k] : k \in DOMAIN result.returned}, FALSE, "",
                                result.table),
                    Len(result.returned))
        /\ UNCHANGED next_post_id

----------------------------------------------------------------------------
(* The credential, prompt and template endpoints (api/v1/credentials.py,   *)
(* api/v1/prompts.py, api/v1/templates.py over                             *)
(* services/template_service.py).  A request is one step: its SELECT, its  *)
(* commit and the row it answers with.  An Optional value is the empty set *)
(* (None) or a singleton.                                                  *)

Reply(endpoint, user_id, status, returned) ==
    [endpoint |-> endpoint, user_id |-> user_id, status |-> status, returned |-> returned]

NoReply == Reply("none", 0, 0, {})

\* encrypt_value: get_encryption_service().encrypt(plain_value)
encrypt_value(plain_value) ==
    IF ENCRYPTION_KEY = ""
    THEN Raised("ENCRYPTION_KEY not set in environment. "
                \o "Generate one with: python -c 'from cryptography.fernet import Fernet; print(Fernet.generate_key().decode())'")
    ELSE IF plain_value = ""
    THEN Raised("Cannot encrypt empty value")
    ELSE Returned(Token(ENCRYPTION_KEY, plain_value))

\* select(Credential).filter(user_id == current_user.id, key == key)
SelectCredential(user_id, key) ==
    {c \in credentials : c.user_id = user_id /\ c.key = key}

list_credentials(current_user) ==
    /\ reply' = Reply("list_credentials", current_user, 200,
                      {c \in credentials : c.user_id = current_user})
    /\ UNCHANGED <<registry_vars, models_vars, store_vars, template_vars, call_vars,
                   import_vars, post_vars, last>>

get_credential(current_user, key) ==
    /\ LET credential == SelectCredential(current_user, key)
       IN  reply' = Reply("get_credential", current_user,
                          IF credential = {} THEN 404 ELSE 200, credential)
    /\ UNCHANGED <<registry_vars, models_vars, store_vars, template_vars, call_vars,
                   import_vars, post_vars, last>>

\* PUT /{key}: the value is encrypted again; db.refresh(credential) reads
\* the row back by its primary key.
update_credential(current_user, key, credential_in) ==
    /\ LET credential == SelectCredential(current_user, key)
           encrypted == encrypt_value(credential_in.value)
           Write(c) == [c EXCEPT !.encrypted_value = encrypted.value,
                                 !.description = IF credential_in.description # {}
                                                 THEN credential_in.description ELSE @]
           written == {IF c \in credential THEN Write(c) ELSE c : c \in credentials}
       IN  IF credential = {}
           THEN /\ reply' = Reply("update_credential", current_user, 404, {})
                /\ UNCHANGED credentials
           ELSE IF encrypted.raised
           THEN /\ reply' = Reply("update_credential", current_user, 500, {})
                /\ UNCHANGED credentials
           ELSE /\ credentials' = written
                /\ reply' = Reply("update_credential", current_user, 200,
                                  {c \in written : \E loaded \in credential : c.id = loaded.id})
    /\ UNCHANGED <<registry_vars, models_vars, ENCRYPTION_KEY, prompts, customer_info,
                   template_vars, call_vars, import_vars, post_vars, last>>

delete_credential(current_user, key) ==
    /\ LET credential == SelectCredential(current_user, key)
       IN  IF credential = {}
           THEN /\ reply' = Reply("delete_credential", current_user, 404, {})
                /\ UNCHANGED credentials
           ELSE /\ credentials' = credentials \ credential
                /\ reply' = Reply("delete_credential", current_user, 204, {})
    /\ UNCHANGED <<registry_vars, models_vars, ENCRYPTION_KEY, prompts, customer_info,
                   template_vars, call_vars, import_vars, post_vars, last>>

\* select(Prompt).filter(Prompt.id == prompt_id, Prompt.user_id == current_user.id)
SelectPrompt(user_id, prompt_id) ==
    {p \in prompts : p.id = prompt_id /\ p.user_id = user_id}

list_prompts(current_user) ==
    /\ reply' = Reply("list_prompts", current_user, 200,
                      {p \in prompts : p.user_id = current_user})
    /\ UNCHANGED <<registry_vars, models_vars, store_vars, template_vars, call_vars,
                   import_vars, post_vars, last>>

get_prompt(current_user, prompt_id) ==
    /\ LET prompt == SelectPrompt(current_user, prompt_id)
       IN  reply' = Reply("get_prompt", current_user,
                          IF prompt = {} THEN 404 ELSE 200, prompt)
    /\ UNCHANGED <<registry_vars, models_vars, store_vars, template_vars, call_vars,
                   import_vars, post_vars, last>>

\* The commit of an update fails on a tag_id that names no tag (the column
\* is a foreign key to tags.id).
ForeignKeyViolation(update_data) ==
    /\ "tag_id" \in DOMAIN update_data
    /\ \E t \in update_data.tag_id : ~\E tag \in tags : tag.id = t

\* setattr(row, field, value) for every field of update_data
SetFields(row, update_data) ==
    [f \in DOMAIN row |-> IF f \in DOMAIN update_data THEN update_data[f] ELSE row[f]]

\* PUT /{prompt_id}: after the commit the prompt is fetched again, by its
\* id alone.
update_prompt(current_user, prompt_id, prompt_in) ==
    /\ LET prompt == SelectPrompt(current_user, prompt_id)
           written == {IF p \in prompt THEN SetFields(p, prompt_in) ELSE p : p \in prompts}
       IN  IF prompt = {}
           THEN /\ reply' = Reply("update_prompt", current_user, 404, {})
                /\ UNCHANGED prompts
           ELSE IF ForeignKeyViolation(prompt_in)
           THEN /\ reply' = Reply("update_prompt", current_user, 500, {})
                /\ UNCHANGED prompts
           ELSE /\ prompts' = written
                /\ reply' = Reply("update_prompt", current_user, 200,
                                  {p \in written : p.id = prompt_id})
    /\ UNCHANGED <<registry_vars, models_vars, ENCRYPTION_KEY, credentials, customer_info,
                   template_vars, call_vars, import_vars, post_vars, last>>

delete_prompt(current_user, prompt_id) ==
    /\ LET prompt == SelectPrompt(current_user, prompt_id)
       IN  IF prompt = {}
           THEN /\ reply' = Reply("delete_prompt", current_user, 404, {})
                /\ UNCHANGED prompts
           ELSE /\ prompts' = prompts \ prompt
                /\ reply' = Reply("delete_prompt", current_user, 204, {})
    /\ UNCHANGED <<registry_vars, models_vars, ENCRYPTION_KEY, credentials, customer_info,
                   template_vars, call_vars, import_vars, post_vars, last>>

\* TemplateService.get_template:
\* select(Template).filter(Template.id == template_id, Template.user_id == user_id)
GetTemplate(user_id, template_id) ==
    {t \in templates : t.id = template_id /\ t.user_id = user_id}

\* TemplateService.list_templates without category or search
list_templates(current_user) ==
    /\ reply' = Reply("list_templates", current_user, 200,
                      {t \in templates : t.user_id = current_user})
    /\ UNCHANGED <<registry_vars, models_vars, store_vars, template_vars, call_vars,
                   import_vars, post_vars, last>>

get_template(current_user, template_id) ==
    /\ LET template == GetTemplate(current_user, template_id)
       IN  reply' = Reply("get_template", current_user,
                          IF template = {} THEN 404 ELSE 200, template)
    /\ UNCHANGED <<registry_vars, models_vars, store_vars, template_vars, call_vars,
                   import_vars, post_vars, last>>

\* TemplateService.update_template, answered 404 when it returns None
update_template(current_user, template_id, template_data) ==
    /\ LET template == GetTemplate(current_user, template_id)
           written == {IF t \in template THEN SetFields(t, template_data) ELSE t :
                          t \in templates}
       IN  IF template = {}
           THEN /\ reply' = Reply("update_template", current_user, 404, {})
                /\ UNCHANGED templates
           ELSE /\ templates' = written
                /\ reply' = Reply("update_template", current_user, 200,
                                  {t \in written : \E loaded \in template : t.id = loaded.id})
    /\ UNCHANGED <<registry_vars, models_vars, store_vars, next_template_id, call_vars,
                   import_vars, post_vars, last>>

\* TemplateService.delete_template, answered 404 when it returns False
delete_template(current_user, template_id) ==
    /\ LET template == GetTemplate(current_user, template_id)
       IN  IF template = {}
           THEN /\ reply' = Reply("delete_template", current_user, 404, {})
                /\ UNCHANGED templates
           ELSE /\ templates' = templates \ template
                /\ reply' = Reply("delete_template", current_user, 204, {})
    /\ UNCHANGED <<registry_vars, models_vars, store_vars, next_template_id, call_vars,
                   import_vars, post_vars, last>>

----------------------------------------------------------------------------
(* Specifications *)

InitRegistry ==
    /\ _text_providers = StartupTextProviders
    /\ _image_providers = StartupImageProviders
    /\ _vision_providers = StartupVisionProviders

IdleSessions == [s \in 1..MaxInFlight |-> IdleSession]

\* The model-configuration endpoints from an empty table
Init ==
    /\ InitRegistry
    /\ ENCRYPTION_KEY = "fernet-key-1"
    /\ model_configs = {}
    /\ next_model_config_id = 1
    /\ credentials = {}
    /\ prompts = {}
    /\ customer_info = {}
    /\ templates = {}
    /\ next_template_id = 1
    /\ sessions = IdleSessions
    /\ last = NoRequest
    /\ flux = FluxIdle
    /\ injection = NoInjection
    /\ tags = {}
    /\ autoflush = TRUE
    /\ imports = NoImports
    /\ posts = {}
    /\ next_post_id = 1
    /\ post_call = NoPostCall
    /\ reply = NoReply

\* One request at a time: each commits before the next starts.
Next ==
    \/ \E u \in User, inp \in ModelConfigCreate : create_model_config(1, u, inp)
    \/ \E u \in User, id \in 1..MaxModelConfigs, inp \in ModelConfigUpdate :
          update_model_config(1, u, id, inp)
    \/ \E u \in User, id \in 1..MaxModelConfigs : delete_model_config(1, u, id)
    \/ select_current_defaults(1)
    \/ db_commit(1)

Spec == Init /\ [][Next]_vars

\* Up to MaxInFlight requests of one user are handled at once.
NextConcurrent ==
    \/ \E s \in 1..MaxInFlight, inp \in ConcurrentCreate : create_model_config(s, 1, inp)
    \/ \E s \in 1..MaxInFlight, id \in 1..MaxModelConfigs, inp \in ConcurrentUpdate :
          update_model_config(s, 1, id, inp)
    \/ \E s \in 1..MaxInFlight, id \in 1..MaxModelConfigs : delete_model_config(s, 1, id)
    \/ \E s \in 1..MaxInFlight : select_current_defaults(s)
    \/ \E s \in 1..MaxInFlight : db_commit(s)

SpecConcurrent == Init /\ [][NextConcurrent]_vars

----------------------------------------------------------------------------
(* The orchestrators over a store that holds rows already.                 *)

EncryptionKeys == {"", "fernet-key-1"}

\* The model configuration of user 1: of a provider of each capability, of
\* a provider asked for under another capability, and of the plugin.
SeedTargets ==
    { [provider |-> "openai", model_id |-> "gpt-4o", model_type |-> "text"],
      [provider |-> "openai_dalle", model_id |-> "dall-e-3", model_type |-> "image"],
      [provider |-> "openai_vision", model_id |-> "gpt-4o", model_type |-> "vision"],
      [provider |-> "lm_studio_vision", model_id |-> "llava-1.5-7b", model_type |-> "vision"],
      [provider |-> "openai_dalle", model_id |-> "dall-e-3", model_type |-> "vision"],
      [provider |-> "local_stub", model_id |-> "stub-1", model_type |-> "text"],
      [provider |-> "local_stub", model_id |-> "stub-1", model_type |-> "image"],
      [provider |-> "local_stub", model_id |-> "stub-1", model_type |-> "vision"] }

SeedModelConfigs ==
    {{}} \cup {{ModelConfig(1, 1, t.provider, t.model_id, t.model_type, TRUE, FALSE)} :
                   t \in SeedTargets}
         \cup {{ModelConfig(1, 1, t.provider, t.model_id, t.model_type, FALSE, FALSE)} :
                   t \in {x \in SeedTargets : x.provider \in {"openai", "openai_dalle",
                                                               "lm_studio_vision"}}}

\* Credentials were encrypted by create_credential under the key of the
\* time: fernet-key-1, or the key in use before it.
SeedCredentialRows ==
    { Credential(1, 1, "openai_api_key", Token("fernet-key-1", "sk-user1-openai")),
      Credential(2, 1, "chatgpt_api_key", Token("fernet-key-0", "sk-user1-chatgpt")),
      Credential(3, 1, "bfl_api_key", Token("fernet-key-1", "bfl-user1")),
      Credential(4, 2, "openai_api_key", Token("fernet-key-1", "sk-user2-openai")) }

SeedCredentials == {rows \in SUBSET SeedCredentialRows : Cardinality(rows) <= MaxCredentials}

SeedPrompts ==
    { Prompt(1, 1, "Launch post", "Write a post about the launch.",
             [Pain |-> TRUE, Brand |-> TRUE, Desires |-> FALSE, USP |-> TRUE]),
      Prompt(2, 2, "Plain", "Write a haiku.", << >>) }

SeedCustomerInfo ==
    { CustomerInfo(1, 1, "Pain", <<[prompt |-> "What hurts?", response |-> "No time"],
                                   [prompt |-> "What else?", response |-> "No budget"]>>),
      CustomerInfo(2, 2, "Brand", <<[prompt |-> "Voice?", response |-> "Playful"]>>) }

InitGen ==
    /\ InitRegistry
    /\ ENCRYPTION_KEY \in EncryptionKeys
    /\ model_configs \in SeedModelConfigs
    /\ next_model_config_id = 2
    /\ credentials \in SeedCredentials
    /\ prompts = SeedPrompts
    /\ customer_info = SeedCustomerInfo
    /\ templates = {}
    /\ next_template_id = 1
    /\ sessions = IdleSessions
    /\ last = NoRequest
    /\ flux = FluxIdle
    /\ injection = NoInjection
    /\ tags = {}
    /\ autoflush = TRUE
    /\ imports = NoImports
    /\ posts = {}
    /\ next_post_id = 1
    /\ post_call = NoPostCall
    /\ reply = NoReply

UUID == {"3f2b8c1e-7d4a-4e0b-9c55-0a1d2e3f4a5b", "c9a1e6d2-0b3f-4c8e-8f21-6b7a8c9d0e1f"}

PromptId == {1, 2}

\* The orders in which the store can return a user's customer_info rows
RECURSIVE Perms(_)
Perms(rows) ==
    IF rows = {} THEN {<< >>}
    ELSE UNION {{<<r>> \o p : p \in Perms(rows \ {r})} : r \in rows}

Orders(user_id) == Perms({ci \in customer_info : ci.user_id = user_id})

\* What random.choice can draw for each category of the user's rows
PairCount(user_id, category) ==
    LET rows == {ci \in customer_info : ci.user_id = user_id /\ ci.category = category
                                        /\ ci.details # << >>}
    IN  IF rows = {} THEN 1 ELSE Len((CHOOSE ci \in rows : TRUE).details)

Picks(user_id) ==
    {f \in [RANDOM_CATEGORIES -> 1..MaxPairs] :
         \A c \in RANDOM_CATEGORIES : f[c] <= PairCount(user_id, c)}

\* Which of the user's credentials the store returns first
Prefer(user_id) ==
    LET own == {c \in credentials : c.user_id = user_id}
    IN  IF Cardinality(own) >= 2 THEN {c.id : c \in own} ELSE {0}

Uploads ==
    { [image_data |-> ImageData("scan-bytes", 2048), image_filename |-> "scan.v2.PNG",
       custom_prompt |-> {}, template_name |-> {}, template_tags |-> {}],
      [image_data |-> ImageData("photo-bytes", MAX_IMAGE_SIZE_BYTES), image_filename |-> "photo.jpeg",
       custom_prompt |-> {"Read the receipt."}, template_name |-> {"Receipt"},
       template_tags |-> {<<"receipt">>}],
      [image_data |-> ImageData("notes-bytes", 2048), image_filename |-> "notes.txt",
       custom_prompt |-> {}, template_name |-> {}, template_tags |-> {}],
      [image_data |-> ImageData("huge-bytes", MAX_IMAGE_SIZE_BYTES + 1), image_filename |-> "huge.png",
       custom_prompt |-> {}, template_name |-> {}, template_tags |-> {}] }

\* The upload is validated before anything else: what the provider and
\* the template commit would do matters for the uploads that pass.
Valid(upload) ==
    /\ InList(_get_image_type(upload.image_filename), SUPPORTED_IMAGE_TYPES)
    /\ upload.image_data.len <= MAX_IMAGE_SIZE_BYTES

Rejected == CHOOSE b \in ProviderBehaviour : b.kind = "init_raises"

Extractions(upload) ==
    IF Valid(upload)
    THEN {<<b, f>> \in ProviderBehaviour \X DbFault :
             f # "none" => (b.success /\ b.payload # "")}
    ELSE {<<Rejected, "none">>}

\* A plugin registers its class, which keeps the base class's empty
\* declarations, under one capability.
PluginRegistered ==
    \/ "local_stub" \in DOMAIN _text_providers
    \/ "local_stub" \in DOMAIN _image_providers
    \/ "local_stub" \in DOMAIN _vision_providers

\* The providers register while the application starts; a behaviour then
\* follows one orchestrator request.
NextGen ==
    \/ /\ last = NoRequest
       /\ \E user \in User :
             \E order \in Orders(user), picks \in Picks(user), prefer \in Prefer(user),
                prompt_id \in PromptId, model_config_id \in 1..MaxModelConfigs,
                request_id \in UUID, behaviour \in ProviderBehaviour :
                 generate_text(user, prompt_id, model_config_id, request_id, order, picks,
                               prefer, behaviour)
    \/ /\ last = NoRequest
       /\ \E user \in User :
             \E prefer \in Prefer(user), model_config_id \in 1..MaxModelConfigs,
                request_id \in UUID, behaviour \in ProviderBehaviour :
                 generate_image(user, "A lighthouse at dawn", model_config_id, request_id,
                                prefer, behaviour)
    \/ /\ last = NoRequest
       /\ \E user \in User, upload \in Uploads :
             \E extraction \in Extractions(upload), prefer \in Prefer(user),
                model_config_id \in 1..MaxModelConfigs, request_id \in UUID :
                 process_image(user, upload, model_config_id, request_id, prefer,
                               extraction[1], extraction[2])
    \/ /\ last = NoRequest /\ ~PluginRegistered
       /\ register_text_provider("local_stub", "LocalStubProvider")
    \/ /\ last = NoRequest /\ ~PluginRegistered
       /\ register_image_provider("local_stub", "LocalStubProvider")
    \/ /\ last = NoRequest /\ ~PluginRegistered
       /\ register_vision_provider("local_stub", "LocalStubProvider")

SpecGen == InitGen /\ [][NextGen]_vars

\* Requests that come through the HTTP endpoints
NextApi ==
    \/ /\ last = NoRequest
       /\ \E user \in User :
             \E order \in Orders(user), picks \in Picks(user), prefer \in Prefer(user),
                prompt_id \in PromptId, model_config_id \in 1..MaxModelConfigs,
                request_id \in UUID, behaviour \in ProviderBehaviour :
                 api_generate_text(user, prompt_id, model_config_id, request_id, order, picks,
                                   prefer, behaviour)
    \/ /\ last = NoRequest
       /\ \E user \in User :
             \E prefer \in Prefer(user), model_config_id \in 1..MaxModelConfigs,
                request_id \in UUID, behaviour \in ProviderBehaviour :
                 api_generate_image(user, "A lighthouse at dawn", model_config_id, request_id,
                                    prefer, behaviour)

SpecApi == InitGen /\ [][NextApi]_vars

\* One call of BFLFluxProvider.generate_image, request by request
InitFlux == Init

NextFlux ==
    \/ \E i \in 1..Len(BFLFluxProvider.AVAILABLE_MODELS), answer \in SubmitAnswers :
          BFLFlux_generate_image(BFLFluxProvider.AVAILABLE_MODELS[i], answer)
    \/ \E answer \in PollAnswers : BFLFlux_poll_for_result(answer)
    \/ BFLFlux_poll_timed_out
    \/ \E answer \in DownloadAnswers : BFLFlux_download_as_base64(answer)

SpecFlux == InitFlux /\ [][NextFlux]_vars

----------------------------------------------------------------------------
(* _inject_customer_info over every selection map and persona store of a   *)
(* bounded family: one prompt of user 1, records of user 1 for a random, *)
(* two all-pairs and an ignored category, and a record of user 2.          *)

InjectTemplates == {"Write a post about the launch.", "Hook:\n\nBody\n"}

InjectKeys == {"Pain", "Brand", "Customer Persona", "USP"}

\* selected_customers: Dict[str, bool]; a key can be absent, false or true,
\* and a key need not be a category
InjectSelections ==
    UNION {[keys -> BOOLEAN] : keys \in SUBSET InjectKeys}
    \cup {[k \in {"Hobbies"} |-> TRUE], [k \in {"Hobbies", "Brand"} |-> TRUE]}

PairOf(i) == [prompt |-> "Q" \o Str(i), response |-> "A" \o Str(i)]

Details(n) == [i \in 1..n |-> PairOf(i)]

\* The records a user can have for a category: none, one without pairs,
\* one with pairs
InjectRecords(id, user_id, category, counts) ==
    {{}} \cup {{CustomerInfo(id, user_id, category, Details(n))} : n \in counts}

InjectStores ==
    {pain \cup brand \cup persona \cup usp
        \cup {CustomerInfo(5, 2, "Brand", <<[prompt |-> "Voice?", response |-> "Playful"]>>)} :
        pain \in InjectRecords(1, 1, "Pain", {0, 1, MaxPairs}),
        brand \in InjectRecords(2, 1, "Brand", {0, MaxPairs}),
        persona \in InjectRecords(3, 1, "Customer Persona", {1}),
        usp \in InjectRecords(4, 1, "USP", {1})}

InitInject ==
    /\ InitRegistry
    /\ ENCRYPTION_KEY = "fernet-key-1"
    /\ model_configs = {}
    /\ next_model_config_id = 1
    /\ credentials = {}
    /\ \E prompt_template \in InjectTemplates, selected_customers \in InjectSelections :
          prompts = {Prompt(1, 1, "Launch post", prompt_template, selected_customers)}
    /\ customer_info \in InjectStores
    /\ templates = {}
    /\ next_template_id = 1
    /\ sessions = IdleSessions
    /\ last = NoRequest
    /\ flux = FluxIdle
    /\ injection = NoInjection
    /\ tags = {}
    /\ autoflush = TRUE
    /\ imports = NoImports
    /\ posts = {}
    /\ next_post_id = 1
    /\ post_call = NoPostCall
    /\ reply = NoReply

NextInject ==
    \E prompt \in prompts :
        \E order \in Orders(prompt.user_id), picks \in Picks(prompt.user_id) :
            inject_customer_info(prompt, order, picks)

SpecInject == InitInject /\ [][NextInject]_vars

----------------------------------------------------------------------------
(* import_data by two users, one after the other or at the same time, over *)
(* a store that holds a tag, persona records and prompts, two of them of   *)
(* the same name (create_prompt does not look at names).                   *)

Doc1 == "[{\"prompt\": \"Q1\", \"response\": \"A1\"}]"

Doc2 == "[{\"prompt\": \"Q2\", \"response\": \"A2\"}, {\"prompt\": \"Q1\", \"response\": \"A1\"}]"

\* 51 characters
LongTagName == "Behind the scenes of the studio and of the workshop"

ImportRequests ==
    { ImportRequest(<<"Sell">>, <<DesktopCustomerInfo("Pain", Doc1)>>,
                    <<DesktopPrompt("Launch post", "Write about the sale.",
                                    [Pain |-> TRUE], {"Sell"})>>),
      ImportRequest(<< >>, <<DesktopCustomerInfo("Desires", Doc2),
                             DesktopCustomerInfo("Desires", Doc1)>>, << >>),
      ImportRequest(<<"Teach">>, <<DesktopCustomerInfo("Hobbies", Doc1),
                                   DesktopCustomerInfo("Brand", "not json")>>, << >>),
      ImportRequest(<<LongTagName>>, <<DesktopCustomerInfo("Pain", "")>>, << >>),
      ImportRequest(<<"Teach">>, << >>,
                    <<DesktopPrompt("Twice", "Write a joke.", << >>, {}),
                      DesktopPrompt("Tutorial", "Explain a technique.", << >>, {"Teach"})>>),
      ImportRequest(<< >>, << >>, << >>) }

SeedTags == {Tag(1, "Sell")}

SeedImportPrompts ==
    SeedPrompts \cup {Prompt(3, 1, "Twice", "Write a pun.", << >>),
                      Prompt(4, 1, "Twice", "Write a riddle.", << >>)}

InitImport ==
    /\ InitRegistry
    /\ ENCRYPTION_KEY = "fernet-key-1"
    /\ model_configs = {}
    /\ next_model_config_id = 1
    /\ credentials = {}
    /\ prompts = SeedImportPrompts
    /\ customer_info = SeedCustomerInfo
    /\ templates = {}
    /\ next_template_id = 1
    /\ sessions = IdleSessions
    /\ last = NoRequest
    /\ flux = FluxIdle
    /\ injection = NoInjection
    /\ tags = SeedTags
    /\ autoflush \in BOOLEAN
    /\ imports = NoImports
    /\ posts = {}
    /\ next_post_id = 1
    /\ post_call = NoPostCall
    /\ reply = NoReply

\* The sessions are interchangeable: session 2 is used after session 1.
NextImport ==
    \E s \in ImportSession :
        \/ /\ \A o \in ImportSession : o < s => imports[o].pc # "idle"
           /\ \E user \in User, request \in ImportRequests : import_data(s, user, request)
        \/ import_data_tag(s)
        \/ import_data_tag_flush(s)
        \/ import_data_existing_tags(s)
        \/ import_data_customer_info(s)
        \/ import_data_prompt(s)
        \/ import_data_commit(s)

SpecImport == InitImport /\ [][NextImport]_vars

----------------------------------------------------------------------------
(* The post methods called by two users in any order, one call at a time.  *)

PostId == 1..MaxPosts

\* Bodies of PUT /posts/{post_id}, as model_dump(exclude_unset=True) gives
\* them
PostUpdates ==
    { [status |-> {"draft"}],
      [status |-> {"published"}, is_archived |-> {FALSE}],
      [is_archived |-> {TRUE}],
      [status |-> {}] }

PostIdLists == {<<i, j>> : i \in PostId, j \in PostId}

InitPosts == Init

NextPosts ==
    \E user_id \in User :
        \/ /\ next_post_id <= MaxPosts
           /\ \E status \in PostStatus : create_post(user_id, "Draft text", status)
        \/ \E post_id \in PostId : read_post(user_id, post_id)
        \/ \E post_id \in PostId, update_data \in PostUpdates :
              update_post(user_id, post_id, update_data)
        \/ \E post_id \in PostId : delete_post(user_id, post_id)
        \/ \E post_id \in PostId : publish_post(user_id, post_id)
        \/ \E post_id \in PostId : archive_post(user_id, post_id)
        \/ \E post_id \in PostId : restore_post(user_id, post_id)
        \/ \E post_ids \in PostIdLists : bulk_archive_posts(user_id, post_ids)
        \/ \E post_ids \in PostIdLists : bulk_restore_posts(user_id, post_ids)

SpecPosts == InitPosts /\ [][NextPosts]_vars

----------------------------------------------------------------------------
(* Two users, each with rows of their own in every table, and the          *)
(* endpoints that address a row by id or key.                              *)

OwnedModelConfigs ==
    { ModelConfig(1, 1, "openai", "gpt-4o", "text", TRUE, TRUE),
      ModelConfig(2, 1, "openai", "gpt-4o-mini", "text", TRUE, FALSE),
      ModelConfig(3, 2, "openai", "gpt-4o", "text", TRUE, TRUE) }

OwnedCredentials ==
    { Credential(1, 1, "openai_api_key", Token("fernet-key-1", "sk-user1-openai")),
      Credential(4, 2, "openai_api_key", Token("fernet-key-1", "sk-user2-openai")) }

OwnedTemplates ==
    { Template(1, 1, "Hooks", "manual", <<"hook">>, "Did you know?"),
      Template(2, 2, "OCR: flyer.png", "ocr", <<"ocr">>, "Open day on Friday") }

OwnedPosts ==
    { Post(1, 1, "Draft text", "draft"),
      Post(2, 2, "Draft text", "published") }

ModelConfigId == 1..(MaxModelConfigs + 1)

CredentialKeys == {"openai_api_key", "bfl_api_key"}

\* Bodies of PUT /credentials/{key}
CredentialUpdates ==
    { [value |-> "sk-rotated", description |-> {}],
      [value |-> "sk-rotated", description |-> {"rotated"}] }

\* Bodies of PUT /prompts/{prompt_id}, as model_dump(exclude_unset=True)
\* gives them
PromptUpdates ==
    { [name |-> "Renamed"],
      [tag_id |-> {1}],
      [tag_id |-> {2}] }

TemplateId == {1, 2}

\* Bodies of PUT /templates/{template_id}
TemplateUpdates ==
    { [name |-> "Renamed"],
      [category |-> "custom", content |-> "Edited"] }

CredentialEndpoints ==
    {"list_credentials", "get_credential", "update_credential", "delete_credential"}

PromptEndpoints == {"list_prompts", "get_prompt", "update_prompt", "delete_prompt"}

\* The endpoints a behaviour has called so far: a behaviour calls the
\* endpoints of one table, which leave every other table alone.
Exercised ==
    IF sessions # IdleSessions THEN "models"
    ELSE IF post_call # NoPostCall THEN "posts"
    ELSE IF reply = NoReply THEN "none"
    ELSE IF reply.endpoint \in CredentialEndpoints THEN "credentials"
    ELSE IF reply.endpoint \in PromptEndpoints THEN "prompts"
    ELSE "templates"

InitOwners ==
    /\ InitRegistry
    /\ ENCRYPTION_KEY \in EncryptionKeys
    /\ model_configs = OwnedModelConfigs
    /\ next_model_config_id = 4
    /\ credentials = OwnedCredentials
    /\ prompts = SeedPrompts
    /\ customer_info = SeedCustomerInfo
    /\ templates = OwnedTemplates
    /\ next_template_id = 3
    /\ sessions = IdleSessions
    /\ last = NoRequest
    /\ flux = FluxIdle
    /\ injection = NoInjection
    /\ tags = SeedTags
    /\ autoflush = TRUE
    /\ imports = NoImports
    /\ posts = OwnedPosts
    /\ next_post_id = 3
    /\ post_call = NoPostCall
    /\ reply = NoReply

NextOwners ==
    \E current_user \in User :
        \/ /\ Exercised \in {"none", "models"}
           /\ \/ \E id \in ModelConfigId, inp \in ModelConfigUpdate :
                    update_model_config(1, current_user, id, inp)
              \/ \E id \in ModelConfigId : delete_model_config(1, current_user, id)
              \/ select_current_defaults(1)
              \/ db_commit(1)
        \/ /\ Exercised \in {"none", "credentials"}
           /\ \/ list_credentials(current_user)
              \/ \E key \in CredentialKeys : get_credential(current_user, key)
              \/ \E key \in CredentialKeys, credential_in \in CredentialUpdates :
                    update_credential(current_user, key, credential_in)
              \/ \E key \in CredentialKeys : delete_credential(current_user, key)
        \/ /\ Exercised \in {"none", "prompts"}
           /\ \/ list_prompts(current_user)
              \/ \E prompt_id \in PromptId : get_prompt(current_user, prompt_id)
              \/ \E prompt_id \in PromptId, prompt_in \in PromptUpdates :
                    update_prompt(current_user, prompt_id, prompt_in)
              \/ \E prompt_id \in PromptId : delete_prompt(current_user, prompt_id)
        \/ /\ Exercised \in {"none", "templates"}
           /\ \/ list_templates(current_user)
              \/ \E template_id \in TemplateId : get_template(current_user, template_id)
              \/ \E template_id \in TemplateId, template_data \in TemplateUpdates :
                    update_template(current_user, template_id, template_data)
              \/ \E template_id \in TemplateId : delete_template(current_user, template_id)
        \/ /\ Exercised \in {"none", "posts"}
           /\ \/ \E post_id \in PostId : read_post(current_user, post_id)
              \/ \E post_id \in PostId, update_data \in PostUpdates :
                    update_post(current_user, post_id, update_data)
              \/ \E post_id \in PostId : delete_post(current_user, post_id)
              \/ \E post_id \in PostId : publish_post(current_user, post_id)
              \/ \E post_id \in PostId : archive_post(current_user, post_id)
              \/ \E post_id \in PostId : restore_post(current_user, post_id)
              \/ \E post_ids \in PostIdLists : bulk_archive_posts(current_user, post_ids)
              \/ \E post_ids \in PostIdLists : bulk_restore_posts(current_user, post_ids)

SpecOwners == InitOwners /\ [][NextOwners]_vars

----------------------------------------------------------------------------
(* Claims *)

Defaults(u, t) == {m \in model_configs : m.user_id = u /\ m.model_type = t /\ m.is_default}

\* C1: with the requests of the model-configuration endpoints handled one
\* at a time from an empty table, every user has at most one default
\* configuration per model type.
C1_AtMostOneDefault ==
    \A u \in User, t \in {"text", "image", "vision"} : Cardinality(Defaults(u, t)) <= 1

\* C1 witness: a request that set a default has cleared the default of
\* another row of the same user and model type, and one default is left.
C1_DefaultMoved ==
    /\ sessions[1].pc = "idle"
    /\ sessions[1].cleared = 1
    /\ \E u \in User, t \in {"text", "image", "vision"} :
          /\ Cardinality({m \in model_configs : m.user_id = u /\ m.model_type = t}) = 2
          /\ Cardinality(Defaults(u, t)) = 1

\* C2: with requests that set is_default interleaving, no user has two
\* default configurations of one model type in the committed table.
C2_AtMostOneDefaultConcurrent ==
    ~\E u \in User, t \in {"text", "image", "vision"} :
        \E m1, m2 \in Defaults(u, t) : m1.id # m2.id

----------------------------------------------------------------------------
(* The orchestrator claims, read off the store and the last request.       *)

Response == CHOOSE r \in last.response : TRUE

Error == CHOOSE e \in Response.error : TRUE

Orchestrated == last.kind \in {"text", "image", "vision"}

PromptFound == \E p \in prompts : p.id = last.prompt_id /\ p.user_id = last.user

UploadAccepted ==
    /\ InList(_get_image_type(last.upload.image_filename), SUPPORTED_IMAGE_TYPES)
    /\ last.upload.image_data.len <= MAX_IMAGE_SIZE_BYTES

ConfigFound == \E m \in model_configs : m.id = last.model_config_id /\ m.user_id = last.user

Config == CHOOSE m \in model_configs : m.id = last.model_config_id /\ m.user_id = last.user

\* The input of the request was resolved (step 2 of the sequence)
InputResolved ==
    /\ last.kind = "text" => PromptFound
    /\ last.kind = "vision" => UploadAccepted

\* The request got as far as resolving credentials (step 5)
ReachedCredentials ==
    /\ Orchestrated
    /\ InputResolved
    /\ ConfigFound
    /\ Config.is_enabled
    /\ last.kind = "vision" => Config.model_type = "vision"

\* The registry of the request's capability
Registry ==
    CASE last.kind = "text" -> _text_providers
      [] last.kind = "image" -> _image_providers
      [] OTHER -> _vision_providers

ProviderRegistered == Config.provider \in DOMAIN Registry

\* The accepted key list the provider of the request's capability declares
DeclaredKeys == Class(Registry[Config.provider]).VALID_CREDENTIAL_KEYS

\* The user's credentials with a key of the list that decrypt
Matching(keys) == {c \in credentials : c.user_id = last.user /\ InList(c.key, keys)}

Decrypts(c) ==
    /\ ENCRYPTION_KEY # ""
    /\ c.encrypted_value # << >>
    /\ c.encrypted_value[1] = ENCRYPTION_KEY

\* The key list the orchestrator asked the factory for
RequiredKeys == get_valid_credentials_for_provider(Config.provider, last.kind)

\* The credential step succeeded: no key is required of the provider, or
\* a credential of the user with a required key was decrypted.
CredentialResolved ==
    \/ last.kind = "vision" /\ RequiredKeys = << >> /\ last.trace.credential = {}
    \/ /\ RequiredKeys # << >>
       /\ \E c \in last.trace.credential : c \in Matching(RequiredKeys) /\ Decrypts(c)

\* C3: the capability method is invoked at most once per request, and
\* only when the prompt was found (text), the model configuration was
\* found and is enabled, the credential step succeeded and the registry
\* gave an instance; when one of these fails it is not invoked at all.
C3_InvokedOnceAfterEveryStep ==
    /\ last.trace.calls <= 1
    /\ last.trace.calls = 1 =>
          /\ ReachedCredentials
          /\ CredentialResolved
          /\ ProviderRegistered
          /\ last.trace.constructions = 1
          /\ last.trace.instance # {}
    /\ last.trace.returned # {} => last.trace.calls = 1

\* C3 witness: a text request whose every step succeeded called generate.
C3_TextProviderInvoked ==
    /\ last.kind = "text"
    /\ last.trace.calls = 1
    /\ last.trace.credential # {}
    /\ Response.success

\* The step that fails first, for the failures that name what is missing
PromptMissing == last.kind = "text" /\ ~PromptFound

ConfigMissing == Orchestrated /\ InputResolved /\ ~ConfigFound

ConfigDisabled ==
    /\ Orchestrated /\ InputResolved /\ ConfigFound
    /\ last.kind = "vision" => Config.model_type = "vision"
    /\ ~Config.is_enabled

\* A step before the provider call failed
PreconditionFailed ==
    /\ Orchestrated
    /\ ~(ReachedCredentials /\ CredentialResolved /\ ProviderRegistered)

\* C4: no orchestrator lets an exception out; when a step before the
\* provider call fails, the response has success false, the request's
\* correlation id, which is not empty, and the exception's message as
\* error: the message of a missing prompt or model configuration names
\* the id, that of a disabled model the model.
C4_FailureIsAResponse ==
    /\ ~last.propagated
    /\ Orchestrated => last.response # {}
    /\ PreconditionFailed =>
          /\ ~Response.success
          /\ Response.request_id = last.request_id
          /\ Response.request_id # ""
          /\ Response.error # {} /\ Error # ""
          /\ Response.model_used = "" /\ Response.provider = ""
          /\ last.trace.calls = 0
    /\ PromptMissing => Error = "Prompt with ID " \o Str(last.prompt_id) \o " not found"
    /\ ConfigMissing =>
          Error = "Model configuration with ID " \o Str(last.model_config_id) \o " not found"
    /\ ConfigDisabled => Error = "Model " \o Config.model_id \o " is disabled"

\* C4 witness: a request for a model configuration the user does not
\* have came back as a failure response.
C4_MissingConfigReported ==
    /\ ConfigMissing
    /\ ~Response.success
    /\ Contains(Error, Str(last.model_config_id))

\* C5: when the capability method returns success false, the orchestrator
\* returns that response, its error and every other field as they were,
\* with the request's correlation id as request_id, and raises nothing.
C5_VendorFailureReturned ==
    \A returned \in last.trace.returned :
        ~returned.success =>
            /\ ~last.propagated
            /\ last.response = {[returned EXCEPT !.request_id = last.request_id]}
            /\ ~Response.success
            /\ Response.error = returned.error
            /\ last.template = {}

\* C5 witness: a provider returned a failure and the caller got it.
C5_VendorFailureSeen ==
    /\ \E returned \in last.trace.returned : ~returned.success /\ returned.error = {"rate limited"}
    /\ last.response # {}
    /\ Response.error = {"rate limited"}

\* C6: every response an orchestrator returns carries the correlation id
\* generated at the start of its request, whatever id the provider put.
C6_RequestIdIsCorrelationId ==
    Orchestrated =>
        /\ last.response # {}
        /\ \A r \in last.response : r.request_id = last.request_id

\* C6 witness: the provider put its own id and the response carries the
\* request's.
C6_ProviderIdOverwritten ==
    /\ \E returned \in last.trace.returned :
          returned.request_id # "" /\ returned.request_id # last.request_id
    /\ last.response # {}
    /\ Response.request_id = last.request_id

\* The provider of the request's capability declares no accepted key
DeclaresNoKeys == ReachedCredentials /\ ProviderRegistered /\ DeclaredKeys = << >>

\* The provider of the request's capability declares accepted keys
DeclaresKeys == ReachedCredentials /\ ProviderRegistered /\ DeclaredKeys # << >>

OwnMatching == Matching(DeclaredKeys)

\* C8: in process_image, for a vision provider that declares accepted
\* keys, the credential store is queried with those keys; when the user
\* has no credential with one of them the request fails with an error
\* that lists them and extract_text is not invoked; when the user has
\* one, its decrypted value is the api key the provider is given.
C8_VisionKeysAreResolved ==
    (last.kind = "vision" /\ DeclaresKeys) =>
        /\ last.trace.query = {DeclaredKeys}
        /\ OwnMatching = {} =>
              /\ ~Response.success
              /\ \A i \in 1..Len(DeclaredKeys) : Contains(Error, DeclaredKeys[i])
              /\ last.trace.calls = 0
        /\ \A i \in last.trace.instance :
              \E c \in OwnMatching : Decrypts(c) /\ i.api_key = c.encrypted_value[2]

\* C9: in generate_text and generate_image, for a provider that declares
\* accepted keys, a user without a credential of one of these keys gets
\* success false and an error that names the provider and every key.
C9_MissingCredentialListsKeys ==
    (last.kind \in {"text", "image"} /\ DeclaresKeys /\ OwnMatching = {}) =>
        /\ ~Response.success
        /\ Contains(Error, Config.provider)
        /\ \A i \in 1..Len(DeclaredKeys) : Contains(Error, DeclaredKeys[i])
        /\ last.trace.calls = 0

\* C9 witness: the store holds credentials, none of them the user's with
\* an accepted key, and an image request failed listing the keys.
C9_ImageKeysListed ==
    /\ last.kind = "image"
    /\ DeclaresKeys
    /\ OwnMatching = {}
    /\ credentials # {}
    /\ Contains(Error, "openai_api_key, chatgpt_api_key")

\* C10: the credential generate_text or generate_image decrypts is a row
\* of the store owned by the requesting user with a key the provider
\* accepts, whichever matching row the store returns first; the api key
\* the provider is given is the decrypted value of that row.
C10_OwnAcceptedCredentialOnly ==
    last.kind \in {"text", "image"} =>
        /\ \A c \in last.trace.credential :
              /\ c \in credentials
              /\ c.user_id = last.user
              /\ ProviderRegistered
              /\ InList(c.key, DeclaredKeys)
        /\ \A i \in last.trace.instance :
              \E c \in last.trace.credential : i.api_key = c.encrypted_value[2]

\* C10 witness: the user has two credentials the provider accepts; the
\* store returned the openai_api_key one first and the provider was
\* called with its value.
C10_OneOfTwoUsed ==
    /\ last.kind = "text"
    /\ DeclaresKeys
    /\ Cardinality(OwnMatching) = 2
    /\ \E c \in last.trace.credential : c.key = "openai_api_key"
    /\ last.trace.calls = 1
    /\ \E i \in last.trace.instance : i.api_key = "sk-user1-openai"

----------------------------------------------------------------------------
(* Unknown providers *)

\* C11: when the provider of the model configuration is not in the
\* registry of the requested capability, the orchestrator returns a
\* response with success false whose error names the provider; no provider
\* instance is built and no capability method is invoked.  (process_image
\* takes the accepted keys of a vision request from the image registry:
\* for a name registered there but not as a vision provider it resolves a
\* credential first, and a credential that does not decrypt ends the
\* request with an error that names no provider.)
C11_UnknownProviderFails ==
    (ReachedCredentials /\ ~ProviderRegistered) =>
        /\ ~last.propagated
        /\ last.response # {}
        /\ ~Response.success
        /\ Response.error # {}
        /\ Contains(Error, "'" \o Config.provider \o "'")
        /\ last.trace.instance = {}
        /\ last.trace.calls = 0
        /\ last.trace.returned = {}

----------------------------------------------------------------------------
(* The HTTP endpoints *)

\* C12: at the text and image generation endpoints, a failure of a step
\* before the provider call (prompt or model configuration not found,
\* model disabled, credential missing, unknown provider, decryption
\* failure) reaches the HTTP caller as status 400 whose detail is the
\* message naming what is missing.
C12_PreconditionFailureIs400 ==
    /\ (last.kind = "text" /\ last.http # NoHTTPResponse /\ PreconditionFailed) =>
          /\ last.http.status_code = 400
          /\ last.http.detail = Error
    /\ (last.kind = "api_image" /\ ~ConfigFound) =>
          /\ last.http.status_code = 400
          /\ last.http.detail =
                "Model configuration with ID " \o Str(last.model_config_id) \o " not found"

----------------------------------------------------------------------------
(* The BFL Flux poll loop *)

FluxResponse == CHOOSE r \in flux.response : TRUE

FluxError == CHOOSE e \in FluxResponse.error : TRUE

\* The statuses that keep the loop waiting
Waiting == {"Pending", "Processing"}

\* The call returned and every status poll it made answered Pending or
\* Processing
OnlyWaitingAnswers ==
    /\ flux.pc = "returned"
    /\ flux.task_id # ""
    /\ flux.polls = flux.sleeps
    /\ flux.seen # {}
    /\ flux.seen \subseteq Waiting

\* C13: _poll_for_result never issues more than max_attempts status polls;
\* when every poll answers Pending or Processing it issues exactly
\* max_attempts (60) of them, sleeping after each, and generate_image
\* returns a response with success false whose error is the timeout,
\* without a download.
C13_PollingStopsAtMaxAttempts ==
    /\ flux.polls <= max_attempts
    /\ flux.attempt <= max_attempts
    /\ OnlyWaitingAnswers =>
          /\ flux.polls = max_attempts
          /\ max_attempts = 60
          /\ flux.downloads = 0
          /\ flux.response # {}
          /\ ~FluxResponse.success
          /\ FluxResponse.image_data = {}
          /\ FluxError = "BFL generation timed out"

\* C13 witness: sixty polls, all answered Pending, and the call returned
\* the timeout.
C13_TimedOutAfterSixtyPolls ==
    /\ flux.pc = "returned"
    /\ flux.seen = {"Pending"}
    /\ flux.polls = 60
    /\ flux.sleeps = 60
    /\ FluxResponse.error = {"BFL generation timed out"}

----------------------------------------------------------------------------
(* The injection claims, read off the store and the recorded call.  The    *)
(* expected text is built here from the stored pairs, line by line.        *)

Injected == injection # NoInjection

Rendered == CHOOSE text \in injection.rendered : TRUE

\* The flag of a key is set
Flag(key) ==
    /\ key \in DOMAIN injection.selected_customers
    /\ injection.selected_customers[key]

\* The user's record of a category, if there is one
OwnRecord(category) ==
    {ci \in customer_info : ci.user_id = injection.user_id /\ ci.category = category}

DetailsOf(category) == (CHOOSE ci \in OwnRecord(category) : TRUE).details

\* A category that is enabled and whose record holds pairs
Holds(category) ==
    Flag(category) /\ OwnRecord(category) # {} /\ DetailsOf(category) # << >>

RECURSIVE PairText(_)
PairText(pairs) ==
    IF pairs = << >> THEN ""
    ELSE "Prompt: " \o Head(pairs).prompt \o "\n"
         \o "Response: " \o Head(pairs).response \o "\n" \o PairText(Tail(pairs))

Opening(category) == "### Customer " \o category \o " ###"

Closing(category) == "### End Customer " \o category \o " ###"

Block(category, pairs) == Opening(category) \o "\n" \o PairText(pairs) \o Closing(category)

\* How often sub occurs in s
Count(s, sub) ==
    Cardinality({i \in 1..(Len(s) - Len(sub) + 1) : SubSeq(s, i, i + Len(sub) - 1) = sub})

\* The selection map with the flag of a key set to a value
WithFlag(key, value) ==
    [k \in DOMAIN injection.selected_customers \cup {key} |->
        IF k = key THEN value ELSE injection.selected_customers[k]]

\* What the call returns for another selection map or another draw
RenderedWith(selected_customers, picks) ==
    _inject_customer_info(injection.user_id, injection.prompt_template, selected_customers,
                          injection.order, picks)

\* C15: the template comes back unchanged when the selection map is
\* empty, when every flag in it is false, and when the user has no record
\* of a category whose flag is set.
C15_NothingSelectedIsIdentity ==
    (/\ Injected
     /\ \/ DOMAIN injection.selected_customers = {}
        \/ \A key \in DOMAIN injection.selected_customers : ~injection.selected_customers[key]
        \/ \A category \in CustomerCategory : Flag(category) => OwnRecord(category) = {})
    => Rendered = injection.prompt_template

\* C15 witness: Brand is enabled, the user has records but none of Brand
\* (another user has one), and the template came back as it was.
C15_NoMatchingRecord ==
    /\ Injected
    /\ Flag("Brand")
    /\ \A category \in CustomerCategory : Flag(category) => OwnRecord(category) = {}
    /\ OwnRecord("Pain") # {}
    /\ \E ci \in customer_info : ci.category = "Brand" /\ ci.user_id # injection.user_id
    /\ Rendered = injection.prompt_template

\* C16: for each ignored category (Pun Primer, USP, Roles), the text
\* returned with its flag set to true is the text returned with its flag
\* false, for the same store, load order and draw; the text returned never
\* holds a block of an ignored category.
C16_IgnoredCategoriesChangeNothing ==
    Injected =>
        \A category \in IGNORED_CATEGORIES :
            /\ RenderedWith(WithFlag(category, TRUE), injection.picks)
                  = RenderedWith(WithFlag(category, FALSE), injection.picks)
            /\ Flag(category) =>
                  Rendered = RenderedWith(WithFlag(category, FALSE), injection.picks)
            /\ ~Contains(Rendered, Opening(category))
            /\ ~Contains(Rendered, Closing(category))

\* C16 witness: USP is enabled and the user has a USP record with a pair;
\* a Brand block was injected and nothing of USP.
C16_EnabledUSPNotRendered ==
    /\ Injected
    /\ Holds("USP")
    /\ Holds("Brand")
    /\ Contains(Rendered, Opening("Brand"))
    /\ ~Contains(Rendered, "USP")

\* C17: for every enabled all-pairs category (Customer Persona, Artist
\* Persona, Brand, In Groups and Out Groups) whose record holds pairs, the
\* text holds exactly one block of the category, and the block holds
\* every stored pair once, a Prompt line then a Response line, in the
\* stored order.
C17_AllPairsInStoredOrder ==
    Injected =>
        \A category \in ALL_PAIRS_CATEGORIES :
            Holds(category) =>
                /\ Count(Rendered, Opening(category)) = 1
                /\ Count(Rendered, Closing(category)) = 1
                /\ Contains(Rendered, Block(category, DetailsOf(category)))

\* C17 witness: the Brand record holds two pairs and both are in the text,
\* the first before the second.
C17_TwoBrandPairsRendered ==
    /\ Injected
    /\ Holds("Brand")
    /\ Len(DetailsOf("Brand")) >= 2
    /\ Contains(Rendered, "### Customer Brand ###\nPrompt: Q1\nResponse: A1\nPrompt: Q2\nResponse: A2\n")

\* C18: for every enabled random category (Pain, Pleasures, Desires,
\* Relatable Truths) whose record holds N >= 1 pairs, the text holds
\* exactly one block of the category, the block holds exactly one pair,
\* which is one of the N stored, and for each of the N pairs there is a
\* draw for which the block holds that pair.
C18_OneRandomPair ==
    Injected =>
        \A category \in RANDOM_CATEGORIES :
            Holds(category) =>
                LET details == DetailsOf(category)
                IN  /\ Count(Rendered, Opening(category)) = 1
                    /\ \E i \in 1..Len(details) :
                          Contains(Rendered, Block(category, <<details[i]>>))
                    /\ \A i \in 1..Len(details) :
                          \E picks \in Picks(injection.user_id) :
                              Contains(RenderedWith(injection.selected_customers, picks),
                                       Block(category, <<details[i]>>))

\* C18 witness: the Pain record holds two pairs or more and the block
\* holds the second one only.
C18_SecondPainPairDrawn ==
    /\ Injected
    /\ Holds("Pain")
    /\ Len(DetailsOf("Pain")) >= 2
    /\ Contains(Rendered, "### Customer Pain ###\nPrompt: Q2\nResponse: A2\n### End Customer Pain ###")
    /\ ~Contains(Rendered, "Prompt: Q1\nResponse: A1\n### End Customer Pain ###")

\* The records the call loads, in the order the store returned them
Loaded ==
    LET IsLoaded(ci) == /\ ci.user_id = injection.user_id
                        /\ Flag(ci.category)
                        /\ ci.category \in RANDOM_CATEGORIES \cup ALL_PAIRS_CATEGORIES
    IN  SelectSeq(injection.order, IsLoaded)

\* The pairs of a record that go into its block
Shown(ci) ==
    IF ci.category \in RANDOM_CATEGORIES
    THEN <<ci.details[injection.picks[ci.category]]>>
    ELSE ci.details

\* A blank line and a block for each record that holds pairs
RECURSIVE Appended(_)
Appended(records) ==
    IF records = << >> THEN ""
    ELSE (IF Head(records).details = << >> THEN ""
          ELSE "\n\n" \o Block(Head(records).category, Shown(Head(records))))
         \o Appended(Tail(records))

\* C19: the text returned is the template body as it is, followed, for
\* each loaded record that holds pairs, in load order, by a blank line and
\* the record's block between the marker lines of its category; a record
\* without pairs adds nothing.
C19_BlocksAppendedInLoadOrder ==
    Injected =>
        /\ SubSeq(Rendered, 1, Len(injection.prompt_template)) = injection.prompt_template
        /\ Rendered = injection.prompt_template \o Appended(Loaded)

\* C19 witness: the store returned the Customer Persona record, then a
\* Brand record without pairs, then the Pain record, all three enabled;
\* the text has the persona block, one blank line, the Pain block.
C19_EmptyRecordBetweenBlocks ==
    /\ Injected
    /\ Holds("Customer Persona")
    /\ Holds("Pain")
    /\ Flag("Brand")
    /\ \E i, j, k \in 1..Len(injection.order) :
          /\ i < j /\ j < k
          /\ injection.order[i].category = "Customer Persona"
          /\ injection.order[j].category = "Brand" /\ injection.order[j].details = << >>
          /\ injection.order[k].category = "Pain"
    /\ Contains(Rendered, Closing("Customer Persona") \o "\n\n" \o Opening("Pain"))

----------------------------------------------------------------------------
(* The store across a text generation request *)

\* C20: a step of generate_text, whether it returns a success or a
\* failure, leaves the prompts, the persona records with their pair
\* sequences, the model configurations and the credentials as they were.
C20_GenerateTextWritesNothing ==
    [][(last.kind = "none" /\ last'.kind = "text") =>
          /\ prompts' = prompts
          /\ customer_info' = customer_info
          /\ model_configs' = model_configs
          /\ credentials' = credentials]_vars

\* C20 witness: a text request of user 1 drew a pair of the Pain record
\* for its prompt, the provider answered, and the store holds what it held.
C20_StoreAsSeededAfterInjection ==
    /\ last.kind = "text"
    /\ Response.success
    /\ \E request \in last.trace.request : Contains(request, "### Customer Pain ###")
    /\ prompts = SeedPrompts
    /\ customer_info = SeedCustomerInfo
    /\ model_configs \in SeedModelConfigs
    /\ credentials \in SeedCredentials

----------------------------------------------------------------------------
(* OCR: the template saved from an extraction *)

\* The template save of the request raised (the commit or the refresh)
SaveRaised == last.kind = "vision" /\ last.trace.save_raised # "none"

\* C21: when the provider returned a successful extraction and saving the
\* template raises, process_image still returns that response, success
\* true and the extracted text as the provider gave it, with no template
\* and no error; nothing is raised.
C21_SaveFailureIsNotAFailure ==
    SaveRaised =>
        /\ ~last.propagated
        /\ \A returned \in last.trace.returned :
              /\ returned.success
              /\ last.response = {[returned EXCEPT !.request_id = last.request_id]}
              /\ Response.extracted_text = returned.extracted_text
        /\ Response.success
        /\ Response.error = {}
        /\ last.template = {}

\* C21 witness: the commit of the template raised and the caller got the
\* extracted text.
C21_CommitRaisedTextReturned ==
    /\ last.kind = "vision"
    /\ last.trace.save_raised = "commit"
    /\ Response.success
    /\ Response.extracted_text = "generated"
    /\ last.template = {}
    /\ templates = {}

\* The templates created by the request: the table starts empty.
Created == templates

Extracted == last.kind = "vision" /\ last.response # {} /\ Response.success

\* What the saved template must be for the upload of the request
ExpectedTemplate(t) ==
    /\ t.category = "ocr"
    /\ t.content = Response.extracted_text
    /\ t.user_id = last.user
    /\ t.name = IF last.upload.template_name \in {{}, {""}}
                THEN "OCR: " \o (IF Contains(last.upload.image_filename, ".")
                                 THEN BeforeLastDot(last.upload.image_filename)
                                 ELSE last.upload.image_filename)
                ELSE CHOOSE n \in last.upload.template_name : TRUE
    /\ t.tags = IF last.upload.template_tags \in {{}, {<< >>}}
                THEN <<"ocr", "extracted">>
                ELSE CHOOSE g \in last.upload.template_tags : TRUE

----------------------------------------------------------------------------
(* import_data *)

Done(s) == imports[s].pc = "done"

Succeeded(s) == Done(s) /\ imports[s].response.status_code = 200

Failed(s) == Done(s) /\ imports[s].response.status_code = 500

\* Session o ran while session s ran
Overlapped(s, o) == s # o /\ o \notin imports[s].predecessors /\ s \notin imports[o].predecessors

\* The persona categories the request of a session names
Categories(s) ==
    {imports[s].request.customer_info[k].name : k \in DOMAIN imports[s].request.customer_info}
        \cap CustomerCategory

\* C23: after any sequence of import_data requests, one after the other or
\* overlapping, with a category listed once or twice, the table holds at
\* most one persona record per (user, category).
C23_OneRecordPerUserCategory ==
    \A a \in customer_info, b \in customer_info :
        (a.user_id = b.user_id /\ a.category = b.category) => a = b

\* C23 witness: two overlapping requests of one user each listed Desires,
\* new to the user, twice; both have ended and the user has one record.
C23_OverlappingDuplicatesOneRecord ==
    /\ Done(1) /\ Done(2) /\ Overlapped(1, 2)
    /\ imports[1].user = imports[2].user
    /\ \A s \in ImportSession : Len(imports[s].request.customer_info) = 2
                                /\ Categories(s) = {"Desires"}
    /\ \E r \in customer_info : r.user_id = imports[1].user /\ r.category = "Desires"

\* The pair sequence the last item of a category in the request carries
LastImported(s, c) ==
    LET list == imports[s].request.customer_info
        k == CHOOSE j \in DOMAIN list :
                 list[j].name = c /\ \A l \in DOMAIN list : list[l].name = c => l <= j
        parsed == json_loads(list[k].details)
    IN  IF list[k].details = "" \/ parsed.raised THEN << >> ELSE parsed.value

\* Session o imported after session s had ended, for the same user and
\* with the same body
Repeated(s, o) ==
    /\ Succeeded(s) /\ Succeeded(o)
    /\ s \in imports[o].predecessors
    /\ imports[s].user = imports[o].user
    /\ imports[s].request = imports[o].request

\* C24: right after an import is committed, the user's record of every
\* imported category holds exactly the imported pair sequence, whatever
\* the record held before; and an import repeated with the same data
\* leaves the user's records as the first import left them.
C24_ImportReplacesPairs ==
    /\ \A s \in ImportSession :
          Succeeded(s) =>
              \A c \in Categories(s) :
                  /\ \E r \in imports[s].after : r.category = c
                  /\ \A r \in imports[s].after :
                        r.category = c => r.details = LastImported(s, c)
    /\ \A s \in ImportSession, o \in ImportSession :
          Repeated(s, o) => imports[o].after = imports[s].after

\* C24 witness: user 1, whose Pain record held two other pairs, imported
\* one pair for Pain twice in a row; the record holds that pair only.
C24_PainReplacedTwice ==
    /\ Repeated(1, 2)
    /\ imports[1].user = 1
    /\ "Pain" \in Categories(1)
    /\ \E r \in customer_info :
          /\ r.id = 1 /\ r.user_id = 1 /\ r.category = "Pain"
          /\ r.details = <<[prompt |-> "Q1", response |-> "A1"]>>
    /\ \E r \in SeedCustomerInfo : r.id = 1 /\ Len(r.details) = 2

\* C27: the success flag of a returned import result is true when no
\* error was recorded, and otherwise is true exactly when the number of
\* errors is strictly less than half the number of submitted items.
C27_SuccessBelowHalfErrors ==
    \A s \in ImportSession :
        Succeeded(s) =>
            LET result == CHOOSE r \in imports[s].response.body : TRUE
                request == imports[s].request
                total == Len(request.tags) + Len(request.customer_info) + Len(request.prompts)
            IN  /\ imports[s].response.body # {}
                /\ result.errors = << >> => result.success
                /\ result.errors # << >> => (result.success <=> 2 * Len(result.errors) < total)

\* C27 witness: one error among three items, less than one and a half:
\* the import is a success.
C27_OneErrorOfThree ==
    \E s \in ImportSession :
        /\ Succeeded(s)
        /\ \E result \in imports[s].response.body :
              /\ Len(result.errors) = 1
              /\ result.success
        /\ Len(imports[s].request.tags) + Len(imports[s].request.prompts) = 3

\* The rows session s added or changed are in the tables
Persisted(s) ==
    /\ \A k \in DOMAIN imports[s].new :
          imports[s].new[k].row \in Table(imports[s].new[k].table)
    /\ \A u \in imports[s].updated : u.row \in Table(u.table)

\* The counts of the result against what the session wrote
Counted(s) ==
    LET w == imports[s]
        Written(table) == {k \in DOMAIN w.new : w.new[k].table = table}
                              \cup {u \in w.updated : u.table = table}
    IN  /\ w.result.tags_imported = Cardinality(Written("tags"))
        /\ w.result.customer_info_imported > 0 => Written("customer_info") # {}
        /\ w.result.prompts_imported > 0 => Written("prompts") # {}
        /\ w.result.customer_info_imported
              = Cardinality({k \in DOMAIN w.request.customer_info :
                                w.request.customer_info[k].name \in CustomerCategory})

\* The request of session s ends with this step
Ends(s) == imports[s].pc # "done" /\ imports'[s].pc = "done"

\* C30: an import_data request either fails with status 500 and persists
\* nothing, or returns a result and has persisted every item it counted;
\* and a request in which an item recorded an error still runs to its end
\* and returns its result.
C30_FailsWhollyOrReturnsCounted ==
    /\ [](\A s \in ImportSession :
             (Done(s) /\ imports[s].result.errors # << >>) => Succeeded(s))
    /\ [][\A s \in ImportSession :
             Ends(s) =>
                 /\ imports'[s].response.status_code \in {200, 500}
                 /\ imports'[s].response.status_code = 500
                       => UNCHANGED <<tags, customer_info, prompts>>
                 /\ imports'[s].response.status_code = 200
                       => Persisted(s)' /\ Counted(s)']_vars

\* The outcomes alone, without the clause about item errors
ImportOutcomes ==
    [][\A s \in ImportSession :
          /\ Ends(s) =>
                 /\ imports'[s].response.status_code \in {200, 500}
                 /\ imports'[s].response.status_code = 500
                       => UNCHANGED <<tags, customer_info, prompts>>
                 /\ imports'[s].response.status_code = 200
                       => Persisted(s)' /\ Counted(s)'
          /\ ~Ends(s) /\ imports'[s] # imports[s]
                 => UNCHANGED <<tags, customer_info, prompts>>]_vars

\* An item error that does not come from the database is confined
ConfinedErrors ==
    \A s \in ImportSession :
        (Done(s) /\ ~imports[s].inactive) =>
            (Failed(s) => imports[s].result.errors = << >>)

LongTagFails ==
    \E s \in ImportSession :
        /\ Failed(s) /\ imports[s].request.tags = <<LongTagName>>
        /\ Len(imports[s].result.errors) = 1
        /\ imports[s].predecessors = {} /\ \A o \in ImportSession \ {s} : imports[o].pc = "idle"

----------------------------------------------------------------------------
(* Posts *)

Archived(p) == p.is_archived = {TRUE}

\* The step is a call of archive_post on a post of the caller that is not
\* published
ArchiveRefused ==
    /\ post_call'.op = "archive_post"
    /\ \E p \in posts : /\ p.id = post_call'.post_ids[1]
                        /\ p.user_id = post_call'.user_id
                        /\ p.status # {"published"}

\* C28: after any sequence of post operations every archived post is
\* published; and archive_post on a post that is not published raises its
\* error and leaves the table as it was.
C28_ArchivedPostsArePublished ==
    /\ [](\A p \in posts : Archived(p) => p.status = {"published"})
    /\ [][ArchiveRefused =>
             /\ post_call'.raised
             /\ post_call'.msg = "Only published posts can be archived"
             /\ posts' = posts]_vars

----------------------------------------------------------------------------
(* Ownership *)

\* The rows of a table that belong to another user
Foreign(table, user_id) == {r \in table : r.user_id # user_id}

\* Every row a request loaded or answered with belongs to the requesting user
ReturnedOwn ==
    /\ \A r \in reply.returned : r.user_id = reply.user_id
    /\ \A r \in post_call.returned : r.user_id = post_call.user_id
    /\ \A s \in DOMAIN sessions :
          \A m \in sessions[s].model_config \cup sessions[s].current_defaults :
              m.user_id = sessions[s].user

\* A step that writes a table leaves the rows of every other user as they were
ForeignUntouched ==
    /\ credentials' # credentials =>
          Foreign(credentials', reply'.user_id) = Foreign(credentials, reply'.user_id)
    /\ prompts' # prompts =>
          Foreign(prompts', reply'.user_id) = Foreign(prompts, reply'.user_id)
    /\ templates' # templates =>
          Foreign(templates', reply'.user_id) = Foreign(templates, reply'.user_id)
    /\ posts' # posts =>
          Foreign(posts', post_call'.user_id) = Foreign(posts, post_call'.user_id)
    /\ model_configs' # model_configs =>
          \E s \in DOMAIN sessions :
              /\ sessions[s].pc = "commit"
              /\ sessions'[s] # sessions[s]
              /\ Foreign(model_configs', sessions[s].user) = Foreign(model_configs, sessions[s].user)

----------------------------------------------------------------------------
(* The provider registry *)

Capability == {"text", "image", "vision"}

\* The registry of a capability
Registered(capability) ==
    CASE capability = "text" -> _text_providers
      [] capability = "image" -> _image_providers
      [] OTHER -> _vision_providers

\* What resolving a name under a capability returns
Resolved(capability, name, api_key, model_id) ==
    CASE capability = "text" -> create_text_provider(name, api_key, model_id)
      [] capability = "image" -> create_image_provider(name, api_key, model_id)
      [] OTHER -> create_vision_provider(name, api_key, model_id)

\* The names asked for: every registered name and one that is registered
\* nowhere
AskedNames ==
    DOMAIN _text_providers \cup DOMAIN _image_providers \cup DOMAIN _vision_providers
        \cup {"unknown_provider"}

\* A name registered under the capability resolves to an instance of its
\* class built from the key and the model id, and its accepted keys are the
\* class's; a name not registered under it resolves to None and has no
\* accepted keys.
RegistryContract(capability) ==
    \A name \in AskedNames :
        IF name \in DOMAIN Registered(capability)
        THEN /\ Resolved(capability, name, "sk-1", "model-1") =
                    {ProviderInstance(Registered(capability)[name], "sk-1", "model-1")}
             /\ get_valid_credentials_for_provider(name, capability) =
                    Class(Registered(capability)[name]).VALID_CREDENTIAL_KEYS
        ELSE /\ Resolved(capability, name, "sk-1", "model-1") = {}
             /\ get_valid_credentials_for_provider(name, capability) = << >>

\* C26: for each of text, image and vision, a registered (capability, name)
\* resolves to an instance of the registered class built from the api key
\* and model id and its accepted keys are the class's declared key list; a
\* name registered under one capability is not visible under another; an
\* unregistered name resolves to the not-found value.
C26_RegistryContractPerCapability == \A capability \in Capability : RegistryContract(capability)

\* The contract of the text and of the image registry
TextAndImageContract == RegistryContract("text") /\ RegistryContract("image")

----------------------------------------------------------------------------
(* POST /image *)

\* The accepted keys of the image provider the model configuration names
ImageKeys == Class(_image_providers[Config.provider]).VALID_CREDENTIAL_KEYS

\* The user owns the model configuration, it is enabled, its provider is
\* an image provider, and the user has credentials with an accepted key,
\* all of which decrypt
ImageRequestReady ==
    /\ ConfigFound
    /\ Config.is_enabled
    /\ Config.provider \in DOMAIN _image_providers
    /\ Matching(ImageKeys) # {}
    /\ \A c \in Matching(ImageKeys) : Decrypts(c)

\* C29: a request to the image endpoint with an existing enabled model
\* configuration, a matching credential and a provider that returns
\* success with image data is answered with a success response whose
\* images list holds that image data and whose request_id is the
\* orchestrator's correlation id.
C29_ImageEndpointReturnsImage ==
    (/\ last.kind \in {"image", "api_image"}
     /\ last.http # NoHTTPResponse
     /\ ImageRequestReady
     /\ \E b \in last.behaviour : b.kind = "returns" /\ b.success /\ b.payload # "") =>
        /\ last.http.status_code = 200
        /\ \E body \in last.http.body :
              /\ \A b \in last.behaviour : body.images = {b.payload}
              /\ body.request_id = last.request_id

\* The image endpoint was called with everything in place and a provider
\* that would return the image
ImageRequestReadyReached ==
    /\ last.kind \in {"image", "api_image"}
    /\ last.http # NoHTTPResponse
    /\ ImageRequestReady
    /\ \E b \in last.behaviour : b.kind = "returns" /\ b.success /\ b.payload # ""

====
